---- MODULE Spec2Model ----
(***************************************************************************)
(* Pact Broker MCP server: the tool dispatcher (src/src/index.ts), the     *)
(* argument schemas (tools.ts) and the HTTP client                         *)
(* (src/src/pact-broker-client.ts), as a state machine.                    *)
(*                                                                         *)
(* Strings are sequences of tokens.  A literal of the code is one token, a *)
(* caller-supplied or remote string is a sequence of one-character tokens, *)
(* so that template strings are concatenations (\o) and the characters of  *)
(* a name can be inspected.  A text returned to the host is a sequence of  *)
(* parts: Lit (a literal of the code), Str (a run-time string), Tool (the  *)
(* requested tool name), Num (a number) and Json (JSON.stringify of a      *)
(* value with its indentation).                                            *)
(***************************************************************************)
EXTENDS Integers, Sequences, FiniteSets, TLC

\* ------------------------------------------------------------------------
\* Values
\* ------------------------------------------------------------------------

\* undefined / a present value
None == <<>>
Some(x) == <<x>>

\* the JSON object {} (no members), and a JS object restricted to some keys
EmptyObj == [k \in {} |-> <<>>]
Has(obj, k) == k \in DOMAIN obj
Pick(obj, keys) == [k \in (keys \cap DOMAIN obj) |-> obj[k]]

Range(s) == {s[n] : n \in DOMAIN s}

\* parts of a text
Lit(s) == [lit |-> s]
Str(cs) == [str |-> cs]
Tool(n) == [tool |-> n]
Num(n) == [num |-> n]
Json(v) == [json |-> v, indent |-> 2]

\* argument values as the host passes them: typeof and, for strings, the text
StrV(cs) == [t |-> "string", v |-> cs]
NumV == [t |-> "number", v |-> <<"7">>]
NullV == [t |-> "null", v |-> <<>>]

\* ------------------------------------------------------------------------
\* Bounds of the model
\* ------------------------------------------------------------------------

\* the strings a caller passes as argument values
ArgStrings == {<<"A">>}
\* the values a caller passes that are not strings
NonStrings == {NumV, NullV}
ArgVals == {StrV(cs) : cs \in ArgStrings} \cup NonStrings
\* a field no schema declares
ExtraFields == {"extra"}
\* names the host may request that no case of the dispatcher handles
UnknownNames == {"bogus", "LIST_PACTICIPANTS"}

\* ------------------------------------------------------------------------
\* Schema registry (tools.ts)
\* ------------------------------------------------------------------------

EmptySchema == <<>>
ProviderNameSchema == <<"provider_name">>
ConsumerNameSchema == <<"consumer_name">>
PacticipantNameSchema == <<"name">>
ConsumerProviderNamesSchema == <<"consumer_name", "provider_name">>
ConsumerProviderConsumerVersionSchema ==
    <<"consumer_name", "provider_name", "consumer_version">>
ConsumerProviderPactVersionSchema ==
    <<"consumer_name", "provider_name", "pact_version">>
CanIDeploySchema == <<"pacticipant", "version", "environment">>
PacticipantBranchSchema == <<"pacticipant", "branch">>
EnvironmentSchema == <<"environment">>

\* the cases of the dispatcher's switch, in order
ToolOrder ==
    << "list_pacticipants", "list_providers", "get_pacticipant",
       "get_provider_states", "get_provider_pacts", "get_consumer_pacts",
       "get_pact", "get_pact_version",
       "get_latest_verification_results_for_pact_version",
       "get_previous_distinct_pact", "can_i_deploy", "list_environments",
       "get_pacticipant_branches", "get_pacticipant_branch_latest_version",
       "get_currently_deployed_versions", "get_currently_supported_versions" >>
ToolNames == Range(ToolOrder)

\* the schema each case parses its arguments with
SchemaOf(name) ==
    CASE name \in {"list_pacticipants", "list_providers", "list_environments"}
           -> EmptySchema
      [] name \in {"get_pacticipant", "get_pacticipant_branches"}
           -> PacticipantNameSchema
      [] name \in {"get_provider_states", "get_provider_pacts"}
           -> ProviderNameSchema
      [] name = "get_consumer_pacts" -> ConsumerNameSchema
      [] name = "get_pact" -> ConsumerProviderNamesSchema
      [] name \in {"get_pact_version", "get_previous_distinct_pact"}
           -> ConsumerProviderConsumerVersionSchema
      [] name = "get_latest_verification_results_for_pact_version"
           -> ConsumerProviderPactVersionSchema
      [] name = "can_i_deploy" -> CanIDeploySchema
      [] name = "get_pacticipant_branch_latest_version"
           -> PacticipantBranchSchema
      [] name \in {"get_currently_deployed_versions",
                   "get_currently_supported_versions"}
           -> EnvironmentSchema

\* typeof of the member k of an arguments object, as zod reports it
TypeOfMember(obj, k) == IF Has(obj, k) THEN obj[k].t ELSE "undefined"

\* the message of a zod invalid_type issue
InvalidType(expected, received) ==
    <<Lit("Invalid input: expected "), Lit(expected),
      Lit(", received "), Lit(received)>>

\* (mutant) z.object(...).strict(): a member the shape does not declare is an
\* unrecognized_keys issue
ParseStrict(shape, args) ==
    IF args = None
    THEN [ok |-> FALSE,
          issues |-> <<[path |-> <<>>,
                        message |-> InvalidType("object", "undefined")]>>,
          data |-> EmptyObj]
    ELSE LET obj == args[1]
         IN IF \/ \E k \in DOMAIN obj : k \notin Range(shape)
               \/ \E j \in Range(shape) : TypeOfMember(obj, j) # "string"
            THEN [ok |-> FALSE,
                  issues |-> <<[path |-> <<>>,
                                message |-> <<Lit("Unrecognized key")>>]>>,
                  data |-> EmptyObj]
            ELSE [ok |-> TRUE,
                  issues |-> <<>>,
                  data |-> [k \in Range(shape) |-> obj[k].v]]

\* z.object({k: z.string(), ...}).parse(args): the members of the shape that
\* are not strings give one issue each, in the order of the shape; members
\* the shape does not declare are stripped from the result.
Parse(shape, args) ==
    IF args = None
    THEN [ok |-> FALSE,
          issues |-> <<[path |-> <<>>,
                        message |-> InvalidType("object", "undefined")]>>,
          data |-> EmptyObj]
    ELSE LET obj == args[1]
             bad == SelectSeq(shape, LAMBDA k : TypeOfMember(obj, k) # "string")
         IN IF bad # <<>>
            THEN [ok |-> FALSE,
                  issues |-> [n \in 1..Len(bad) |->
                                [path |-> <<bad[n]>>,
                                 message |-> InvalidType("string",
                                                TypeOfMember(obj, bad[n]))]],
                  data |-> EmptyObj]
            ELSE [ok |-> TRUE,
                  issues |-> <<>>,
                  data |-> [k \in Range(shape) |-> obj[k].v]]

\* TOOL_<X>.description: one text per tool
Description(name) == <<"description of ", name>>

\* (mutant) no field is marked as required
zodToJsonSchemaNoRequired(shape) ==
    [type |-> "object",
     properties |-> [k \in Range(shape) |-> [type |-> "string"]],
     required |-> <<>>]

\* zodToJsonSchema: every member of the shape becomes a property, and a
\* required one unless it is optional (no schema has an optional member)
zodToJsonSchema(shape) ==
    [type |-> "object",
     properties |-> [k \in Range(shape) |-> [type |-> "string"]],
     required |-> shape]

\* (mutant) the last tool of the switch is left out of the list
ListingWithoutLast == SubSeq(ToolOrder, 1, Len(ToolOrder) - 1)

\* the TOOL_* constants of the `tools` array of the ListTools handler, by
\* their names, in the order of the array
Listing ==
    << "list_pacticipants", "list_providers", "get_pacticipant",
       "get_provider_states", "get_provider_pacts", "get_consumer_pacts",
       "get_pact", "get_pact_version",
       "get_latest_verification_results_for_pact_version",
       "get_previous_distinct_pact", "can_i_deploy", "list_environments",
       "get_pacticipant_branches", "get_pacticipant_branch_latest_version",
       "get_currently_deployed_versions", "get_currently_supported_versions" >>

\* the result of the ListTools handler
ListTools ==
    [n \in DOMAIN Listing |->
       [name |-> Listing[n],
        description |-> Description(Listing[n]),
        inputSchema |-> zodToJsonSchema(SchemaOf(Listing[n]))]]

\* ------------------------------------------------------------------------
\* Process configuration (index.ts, buildConfig)
\* ------------------------------------------------------------------------

\* the values the environment variables take (None: the variable is unset)
BaseUrls == {None, Some(<<>>), Some(<<"http://b">>), Some(<<"http://b", "/">>)}
Usernames == {None, Some(<<"u">>)}
Passwords == {None, Some(<<"p">>)}
Tokens == {None, Some(<<"t">>)}
Environments ==
    [PACT_BROKER_BASE_URL : BaseUrls, PACT_BROKER_USERNAME : Usernames,
     PACT_BROKER_PASSWORD : Passwords, PACT_BROKER_TOKEN : Tokens]

\* (mutant) a variable counts as soon as it is set, empty or not
TruthyIfSet(o) == o # None

\* JS truthiness of a string | undefined
Truthy(o) == o # None /\ o[1] # <<>>

\* brokerUrl.replace(/\/$/, "")
StripTrailingSlash(u) ==
    IF Len(u) > 0 /\ u[Len(u)] = "/" THEN SubSeq(u, 1, Len(u) - 1) ELSE u

\* Buffer.from(s).toString("base64")
Base64(s) == <<"base64(">> \o s \o <<")">>

MissingBaseUrl ==
    <<Lit("PACT_BROKER_BASE_URL environment variable is required")>>

\* (mutant) only an unset base URL is refused, an empty one is used
buildConfigUnsetOnly(e) ==
    IF e.PACT_BROKER_BASE_URL = None
    THEN [ok |-> FALSE, message |-> MissingBaseUrl, config |-> None]
    ELSE [ok |-> TRUE, message |-> <<>>,
          config |-> Some(
            [brokerUrl |-> StripTrailingSlash(e.PACT_BROKER_BASE_URL[1]),
             authToken |-> None,
             bearerToken |-> e.PACT_BROKER_TOKEN])]

\* (mutant) the bearer token is dropped when the basic credentials are given
buildConfigBasicWins(e) ==
    IF ~Truthy(e.PACT_BROKER_BASE_URL)
    THEN [ok |-> FALSE, message |-> MissingBaseUrl, config |-> None]
    ELSE LET basic == Truthy(e.PACT_BROKER_USERNAME)
                      /\ Truthy(e.PACT_BROKER_PASSWORD)
         IN [ok |-> TRUE, message |-> <<>>,
             config |-> Some(
               [brokerUrl |-> StripTrailingSlash(e.PACT_BROKER_BASE_URL[1]),
                authToken |->
                  IF basic
                  THEN Some(Base64(e.PACT_BROKER_USERNAME[1] \o <<":">>
                                     \o e.PACT_BROKER_PASSWORD[1]))
                  ELSE None,
                bearerToken |-> IF basic THEN None ELSE e.PACT_BROKER_TOKEN])]

\* buildConfig(): throws when the base URL is unset or empty
buildConfig(e) ==
    IF ~Truthy(e.PACT_BROKER_BASE_URL)
    THEN [ok |-> FALSE, message |-> MissingBaseUrl, config |-> None]
    ELSE [ok |-> TRUE, message |-> <<>>,
          config |-> Some(
            [brokerUrl |-> StripTrailingSlash(e.PACT_BROKER_BASE_URL[1]),
             authToken |->
               IF Truthy(e.PACT_BROKER_USERNAME) /\ Truthy(e.PACT_BROKER_PASSWORD)
               THEN Some(Base64(e.PACT_BROKER_USERNAME[1] \o <<":">>
                                  \o e.PACT_BROKER_PASSWORD[1]))
               ELSE None,
             bearerToken |-> e.PACT_BROKER_TOKEN])]

\* ------------------------------------------------------------------------
\* Remote client (pact-broker-client.ts): requests
\* ------------------------------------------------------------------------

\* (mutant) the basic credential is preferred to the bearer token
buildHeadersBasicFirst(config) ==
    [ContentType |-> <<"application/json">>,
     Accept |-> <<"application/hal+json, application/json">>,
     Authorization |->
       IF Truthy(config.authToken)
       THEN Some(<<"Basic ">> \o config.authToken[1])
       ELSE IF Truthy(config.bearerToken)
            THEN Some(<<"Bearer ">> \o config.bearerToken[1])
            ELSE None]

\* buildHeaders(config)
buildHeaders(config) ==
    [ContentType |-> <<"application/json">>,
     Accept |-> <<"application/hal+json, application/json">>,
     Authorization |->
       IF Truthy(config.bearerToken)
       THEN Some(<<"Bearer ">> \o config.bearerToken[1])
       ELSE IF Truthy(config.authToken)
            THEN Some(<<"Basic ">> \o config.authToken[1])
            ELSE None]

\* (mutant) the request is sent as a POST
GetAsPost(url, config) ==
    [method |-> "POST", url |-> url, headers |-> buildHeaders(config)]

\* the request fetchJSON sends
Get(url, config) ==
    [method |-> "GET", url |-> url, headers |-> buildHeaders(config)]

\* (mutant) the name is put in the URL as it is
encodeURIComponentRaw(s) == s

\* encodeURIComponent, one character
EncodeChar(c) ==
    CASE c = "/" -> <<"%", "2", "F">>
      [] c = "?" -> <<"%", "3", "F">>
      [] c = "#" -> <<"%", "2", "3">>
      [] c = "%" -> <<"%", "2", "5">>
      [] c = " " -> <<"%", "2", "0">>
      [] OTHER -> <<c>>

RECURSIVE encodeURIComponent(_)
encodeURIComponent(s) ==
    IF s = <<>> THEN <<>>
    ELSE EncodeChar(Head(s)) \o encodeURIComponent(Tail(s))

\* URLSearchParams serialisation of one value (form-urlencoded: space is "+")
RECURSIVE FormEncode(_)
FormEncode(s) ==
    IF s = <<>> THEN <<>>
    ELSE (IF Head(s) = " " THEN <<"+">> ELSE EncodeChar(Head(s)))
         \o FormEncode(Tail(s))

\* the endpoint a tool's client function requests at a stage of the call
\* (list_providers requests /pacticipants at stage 1, /pacts/latest at 2)
Endpoint(name, stage) ==
    CASE name = "list_pacticipants" -> "pacticipants"
      [] name = "list_providers" ->
           IF stage = 1 THEN "pacticipants" ELSE "pacts_latest"
      [] name = "get_pacticipant" -> "pacticipant"
      [] name = "get_provider_states" -> "provider_states"
      [] name \in {"get_provider_pacts", "get_consumer_pacts"} -> "pacts_latest"
      [] name = "get_pact" -> "pact"
      [] name = "get_pact_version" -> "pact_version"
      [] name = "get_latest_verification_results_for_pact_version"
           -> "verification"
      [] name = "get_previous_distinct_pact" -> "previous_distinct"
      [] name = "can_i_deploy" -> "matrix"
      [] name = "list_environments" -> "environments"
      [] name = "get_pacticipant_branches" -> "branches"
      [] name = "get_pacticipant_branch_latest_version" -> "branch_latest"
      [] name = "get_currently_deployed_versions" -> "deployed"
      [] name = "get_currently_supported_versions" -> "supported"

\* the URL of an endpoint for the validated input a
Url(endpoint, config, a) ==
    LET base == config.brokerUrl
        enc(k) == encodeURIComponent(a[k])
    IN CASE endpoint = "pacticipants" -> base \o <<"/pacticipants">>
         [] endpoint = "pacticipant" ->
              base \o <<"/pacticipants/">> \o enc("name")
         [] endpoint = "pacts_latest" -> base \o <<"/pacts/latest">>
         [] endpoint = "provider_states" ->
              base \o <<"/pacts/provider/">> \o enc("provider_name")
                   \o <<"/provider-states">>
         [] endpoint = "pact" ->
              base \o <<"/pacts/provider/">> \o enc("provider_name")
                   \o <<"/consumer/">> \o enc("consumer_name") \o <<"/latest">>
         [] endpoint = "matrix" ->
              base \o <<"/matrix", "?", "q%5B%5D%5Bpacticipant%5D=">>
                   \o FormEncode(a["pacticipant"])
                   \o <<"&", "q%5B%5D%5Bversion%5D=">>
                   \o FormEncode(a["version"])
                   \o <<"&", "environment=">> \o FormEncode(a["environment"])
                   \o <<"&", "latestby=cvp">>
         [] endpoint = "environments" -> base \o <<"/environments">>
         [] endpoint = "branches" ->
              base \o <<"/pacticipants/">> \o enc("name") \o <<"/branches">>
         [] endpoint = "branch_latest" ->
              base \o <<"/pacticipants/">> \o enc("pacticipant")
                   \o <<"/branches/">> \o enc("branch") \o <<"/latest-version">>
         [] endpoint = "pact_version" ->
              base \o <<"/pacts/provider/">> \o enc("provider_name")
                   \o <<"/consumer/">> \o enc("consumer_name")
                   \o <<"/version/">> \o enc("consumer_version")
         [] endpoint = "previous_distinct" ->
              base \o <<"/pacts/provider/">> \o enc("provider_name")
                   \o <<"/consumer/">> \o enc("consumer_name")
                   \o <<"/version/">> \o enc("consumer_version")
                   \o <<"/previous-distinct">>
         [] endpoint = "verification" ->
              base \o <<"/pacts/provider/">> \o enc("provider_name")
                   \o <<"/consumer/">> \o enc("consumer_name")
                   \o <<"/pact-version/">> \o enc("pact_version")
                   \o <<"/verification-results/latest">>
         [] endpoint = "deployed" ->
              base \o <<"/environments/">> \o enc("environment")
                   \o <<"/deployed-versions/currently-deployed">>
         [] endpoint = "supported" ->
              base \o <<"/environments/">> \o enc("environment")
                   \o <<"/released-versions/currently-supported">>

\* ------------------------------------------------------------------------
\* The remote registry: what it holds and what it answers
\* ------------------------------------------------------------------------

Pacticipant(n) == [name |-> n, mainBranch |-> <<"main">>]
PacticipantA == [name |-> <<"A">>, displayName |-> <<"Alpha">>]

\* one entry of GET /pacts/latest
RawPact(c, p) ==
    [createdAt |-> <<"2024">>,
     _embedded |-> [consumer |-> [name |-> c], provider |-> [name |-> p]],
     _links |-> [self |-> <<[href |-> <<"pact:">> \o c \o <<"->">> \o p]>>]]

\* the contents the registry may have
Registries ==
    { [pacticipants |-> <<PacticipantA, Pacticipant(<<"B">>), Pacticipant(<<"C">>)>>,
       pacts |-> <<RawPact(<<"A">>, <<"B">>)>>],
      [pacticipants |-> <<PacticipantA, Pacticipant(<<"B">>)>>,
       pacts |-> <<RawPact(<<"A">>, <<"B">>), RawPact(<<"a">>, <<"Z">>),
                   RawPact(<<"B">>, <<"a">>)>>],
      [pacticipants |-> <<>>, pacts |-> <<>>] }

EnvironmentObj ==
    [uuid |-> <<"e1">>, name |-> <<"prod">>, production |-> <<"true">>,
     contacts |-> <<>>]

Verdict(d) ==
    [summary |-> [deployable |-> d, reason |-> <<"r">>], matrix |-> <<>>]

\* the JSON bodies a 2xx answer of an endpoint carries when the registry
\* keeps its contract
ContractBodies(endpoint, reg) ==
    CASE endpoint = "pacticipants" ->
           {[_embedded |-> [pacticipants |-> reg.pacticipants]]}
      [] endpoint = "pacts_latest" -> {[pacts |-> reg.pacts]}
      [] endpoint = "pacticipant" -> Range(reg.pacticipants)
      [] endpoint = "provider_states" ->
           {[providerStates |-> <<>>],
            [providerStates |->
               <<[name |-> <<"s">>, consumers |-> <<<<"A">>>>]>>]}
      [] endpoint \in {"pact", "previous_distinct"} ->
           {[consumer |-> [name |-> <<"A">>], provider |-> [name |-> <<"B">>],
             interactions |-> <<[description |-> <<"d">>,
                                 providerState |-> <<"s">>]>>]}
      [] endpoint = "pact_version" -> {[pactVersion |-> <<"uuid">>]}
      [] endpoint = "verification" -> {[success |-> <<"true">>]}
      [] endpoint = "matrix" -> {Verdict(TRUE), Verdict(FALSE)}
      [] endpoint = "environments" ->
           {[_embedded |-> [environments |-> <<EnvironmentObj>>]]}
      [] endpoint = "branches" ->
           {[_embedded |-> [branches |->
               <<[name |-> <<"main">>, pacticipant |-> [name |-> <<"A">>]]>>]]}
      [] endpoint = "branch_latest" ->
           {[number |-> <<"1">>, branch |-> <<"main">>,
             pacticipant |-> [name |-> <<"A">>]]}
      [] endpoint = "deployed" ->
           {[environment |-> EnvironmentObj,
             deployedVersions |->
               <<[uuid |-> <<"d1">>, currentlyDeployed |-> <<"true">>,
                  _embedded |-> [pacticipant |-> [name |-> <<"A">>],
                                 version |-> [number |-> <<"1">>]]]>>]}
      [] endpoint = "supported" ->
           {[environment |-> EnvironmentObj,
             releasedVersions |->
               <<[uuid |-> <<"r1">>, currentlySupported |-> <<"true">>,
                  _embedded |-> [pacticipant |-> [name |-> <<"A">>],
                                 version |-> [number |-> <<"1">>]]]>>]}

\* a body that wraps the pacts in _embedded, as the other lists are wrapped
WrappedPacts(reg) == [_embedded |-> [pacts |-> reg.pacts]]

\* 2xx bodies: the contract's, or a JSON object without the expected members
OkBodies(endpoint, reg) ==
    ContractBodies(endpoint, reg) \cup {EmptyObj}
      \cup (IF endpoint = "pacts_latest" THEN {WrappedPacts(reg)} ELSE {})

\* non-2xx answers: status, statusText, and the body as response.text() gives
\* it (None: reading the body fails)
NotOkStatuses == {404, 500}
StatusText(status) == IF status = 404 THEN <<"Not Found">> ELSE <<"Server Error">>
NotOkBodies == {None, Some(<<>>), Some(<<"o", "o", "p", "s">>)}

\* ------------------------------------------------------------------------
\* Remote client (pact-broker-client.ts): results
\* ------------------------------------------------------------------------

\* (mutant) the body of the answer is left out of the message
RequestFailedNoBody(status, body) ==
    <<Lit("Pact Broker request failed: "), Num(status), Lit(" "),
      Str(StatusText(status))>>

\* fetchJSON: the Error thrown on a non-2xx answer (" -- " is the em dash)
RequestFailed(status, body) ==
    LET text == IF body = None THEN <<>> ELSE body[1]
    IN <<Lit("Pact Broker request failed: "), Num(status), Lit(" "),
         Str(StatusText(status))>>
       \o (IF text # <<>> THEN <<Lit(" -- "), Str(text)>> ELSE <<>>)

\* the message of the error fetch() rejects with
FetchRejected(url) ==
    <<Lit("request to "), Str(url), Lit(" failed")>>

\* the message of the error response.json() rejects with
InvalidJson(url) ==
    <<Lit("invalid json response body at "), Str(url)>>

\* data._embedded?.<member> ?? []
Embedded(data, member) ==
    IF Has(data, "_embedded") /\ Has(data._embedded, member)
    THEN data._embedded[member] ELSE <<>>

listPacticipants(data) == Embedded(data, "pacticipants")
listEnvironments(data) == Embedded(data, "environments")
getBranches(data) == Embedded(data, "branches")

\* rawPact._links.self[0]?.href ?? ""
SelfHref(rawPact) ==
    IF Len(rawPact._links.self) > 0 /\ Has(rawPact._links.self[1], "href")
    THEN rawPact._links.self[1].href ELSE <<>>

\* (mutant) the pacts are read from the _embedded wrapper
getLatestPactsEmbedded(data) ==
    LET raw == Embedded(data, "pacts")
    IN [n \in DOMAIN raw |->
          Pick(raw[n], {"createdAt"}) @@
          [consumer |-> [name |-> raw[n]._embedded.consumer.name],
           provider |-> [name |-> raw[n]._embedded.provider.name],
           pactUrl |-> SelfHref(raw[n]),
           _links |-> [self |-> [href |-> SelfHref(raw[n])]]]]

\* getLatestPacts: (data.pacts ?? []).map(...)
getLatestPacts(data) ==
    LET raw == IF Has(data, "pacts") THEN data.pacts ELSE <<>>
    IN [n \in DOMAIN raw |->
          Pick(raw[n], {"createdAt"}) @@
          [consumer |-> [name |-> raw[n]._embedded.consumer.name],
           provider |-> [name |-> raw[n]._embedded.provider.name],
           pactUrl |-> SelfHref(raw[n]),
           _links |-> [self |-> [href |-> SelfHref(raw[n])]]]]

\* getProviderStates: data.providerStates ?? []
getProviderStates(data) ==
    IF Has(data, "providerStates") THEN data.providerStates ELSE <<>>

\* the UTF-16 code unit of a character, by which Array.prototype.sort
\* compares strings
CodeUnit(c) ==
    CASE c = "B" -> 66 [] c = "a" -> 97 [] c = "b" -> 98 [] OTHER -> 0

\* a < b as the default comparator of sort() has it
RECURSIVE Before(_, _)
Before(a, b) ==
    IF a = <<>> THEN b # <<>>
    ELSE IF b = <<>> THEN FALSE
    ELSE IF Head(a) = Head(b) THEN Before(Tail(a), Tail(b))
    ELSE CodeUnit(Head(a)) < CodeUnit(Head(b))

\* [...set].sort()
RECURSIVE Sort(_)
Sort(set) ==
    IF set = {} THEN <<>>
    ELSE LET least == CHOOSE x \in set : \A y \in set \ {x} : Before(x, y)
         IN <<least>> \o Sort(set \ {least})

\* what one interaction adds to stateSet: ps.name of each of its
\* providerStates when truthy, and its providerState when truthy
AddedBy(interaction) ==
    LET modern == IF Has(interaction, "providerStates")
                  THEN interaction.providerStates ELSE <<>>
    IN {modern[n].name :
          n \in {m \in DOMAIN modern :
                   Has(modern[m], "name") /\ modern[m].name # <<>>}}
       \cup (IF Has(interaction, "providerState")
                /\ interaction.providerState # <<>>
             THEN {interaction.providerState} ELSE {})

\* (mutant) only the list of states of the later pact formats is mined
extractProviderStatesModernOnly(pact) ==
    LET interactions == IF Has(pact, "interactions") THEN pact.interactions
                        ELSE <<>>
    IN Sort(UNION {AddedBy([k \in DOMAIN interactions[n] \ {"providerState"}
                              |-> interactions[n][k]]) :
                     n \in DOMAIN interactions})

extractProviderStates(pact) ==
    LET interactions == IF Has(pact, "interactions") THEN pact.interactions
                        ELSE <<>>
    IN Sort(UNION {AddedBy(interactions[n]) : n \in DOMAIN interactions})

\* String.prototype.toLowerCase, one character
LowerChar(c) ==
    CASE c = "A" -> "a" [] c = "B" -> "b" [] c = "C" -> "c" [] c = "Z" -> "z"
      [] OTHER -> c
toLowerCase(s) == [n \in DOMAIN s |-> LowerChar(s[n])]

getProviderPacts(latestPacts, providerName) ==
    SelectSeq(latestPacts,
      LAMBDA p : toLowerCase(p.provider.name) = toLowerCase(providerName))

\* (mutant) the names are compared as they are
getConsumerPactsExact(latestPacts, consumerName) ==
    SelectSeq(latestPacts, LAMBDA p : p.consumer.name = consumerName)

getConsumerPacts(latestPacts, consumerName) ==
    SelectSeq(latestPacts,
      LAMBDA p : toLowerCase(p.consumer.name) = toLowerCase(consumerName))

\* (mutant) the provider names are matched in lower case
listProvidersIgnoringCase(allPacticipants, latestPacts) ==
    LET names == {toLowerCase(latestPacts[n].provider.name) :
                    n \in DOMAIN latestPacts}
    IN SelectSeq(allPacticipants, LAMBDA p : toLowerCase(p.name) \in names)

\* (mutant) every pacticipant that appears in a pact, on either side
listProvidersEitherSide(allPacticipants, latestPacts) ==
    LET names == {latestPacts[n].provider.name : n \in DOMAIN latestPacts}
                 \cup {latestPacts[n].consumer.name : n \in DOMAIN latestPacts}
    IN SelectSeq(allPacticipants, LAMBDA p : p.name \in names)

\* listProviders, after both fetches
listProviders(allPacticipants, latestPacts) ==
    LET providerNames == {latestPacts[n].provider.name : n \in DOMAIN latestPacts}
    IN SelectSeq(allPacticipants, LAMBDA p : p.name \in providerNames)

\* ------------------------------------------------------------------------
\* Tool dispatcher (index.ts, CallToolRequestSchema handler): envelopes
\* ------------------------------------------------------------------------

Envelope(text) == [content |-> <<[type |-> "text", text |-> text]>>]

ErrorEnvelope(text) ==
    [content |-> <<[type |-> "text", text |-> text]>>, isError |-> TRUE]

\* (mutant) the default case throws instead of returning: the catch block
\* would prefix the text with "Error: "
UnknownToolThrown(name) ==
    ErrorEnvelope(<<Lit("Error: "), Lit("Unknown tool: \""), Tool(name),
                    Lit("\"")>>)

\* the default case of the switch
UnknownTool(name) ==
    ErrorEnvelope(<<Lit("Unknown tool: \""), Tool(name), Lit("\"")>>)

\* errors: a ZodError carries issues, any other Error a message
ZodError(issues) == [issues |-> issues]
Error(message) == [message |-> message]

\* path.join(".")
RECURSIVE JoinPath(_)
JoinPath(path) ==
    IF path = <<>> THEN <<>>
    ELSE IF Len(path) = 1 THEN <<Lit(path[1])>>
    ELSE <<Lit(path[1]), Lit(".")>> \o JoinPath(Tail(path))

\* issues.map(issue => `${path}: ${message}`).join(", ")
RECURSIVE JoinIssues(_)
JoinIssues(issues) ==
    IF issues = <<>> THEN <<>>
    ELSE JoinPath(issues[1].path) \o <<Lit(": ")>> \o issues[1].message
         \o (IF Len(issues) > 1 THEN <<Lit(", ")>> ELSE <<>>)
         \o JoinIssues(Tail(issues))

\* (mutant) the catch block returns its text without the error flag
CaughtNoFlag(err) ==
    Envelope(<<Lit("Error: ")>>
             \o (IF Has(err, "issues")
                 THEN <<Lit("Invalid arguments: ")>> \o JoinIssues(err.issues)
                 ELSE err.message))

\* the catch block of the handler
Caught(err) ==
    LET message == IF Has(err, "issues")
                   THEN <<Lit("Invalid arguments: ")>> \o JoinIssues(err.issues)
                   ELSE err.message
    IN ErrorEnvelope(<<Lit("Error: ")>> \o message)

\* the TypeError of reading a member of undefined
CannotRead(member) ==
    <<Lit("Cannot read properties of undefined (reading '"), Lit(member),
      Lit("')")>>

MapPick(seq, keys) == [n \in DOMAIN seq |-> Pick(seq[n], keys)]

\* the projection of a pact list entry
PactSummary(p) ==
    Pick(p, {"createdAt"}) @@
    [consumer |-> p.consumer.name, provider |-> p.provider.name,
     pactUrl |-> IF p.pactUrl # <<>> THEN p.pactUrl ELSE p._links.self.href]

\* dv._embedded?.<entity>?.<member>, as an object member (absent if undefined)
EmbeddedMember(v, key, entity, member) ==
    IF Has(v, "_embedded") /\ Has(v._embedded, entity)
       /\ Has(v._embedded[entity], member)
    THEN [k \in {key} |-> v._embedded[entity][member]] ELSE EmptyObj

VersionSummary(v, flag) ==
    Pick(v, {"uuid", flag, "createdAt"})
      @@ EmbeddedMember(v, "pacticipant", "pacticipant", "name")
      @@ EmbeddedMember(v, "version", "version", "number")

EnvironmentVersions(result, member, flag) ==
    [k \in {"environment", member} |->
       IF k = "environment"
       THEN Pick(result.environment, {"uuid", "name", "displayName", "production"})
       ELSE [n \in DOMAIN result[member] |-> VersionSummary(result[member][n], flag)]]

\* JS property rename: {to: obj.from}, absent when obj.from is undefined
Rename(obj, from, to) ==
    IF Has(obj, from) THEN [k \in {to} |-> obj[from]] ELSE EmptyObj

\* (mutant) an empty list of states is printed as JSON like any other
ProviderStatesTextJson(input, statesWithConsumer) ==
    <<Json(statesWithConsumer)>>

\* the text of the get_provider_states case
ProviderStatesText(input, statesWithConsumer) ==
    IF Len(statesWithConsumer) = 0
    THEN <<Lit("No pacts found for provider \""), Str(input.provider_name),
           Lit("\".")>>
    ELSE <<Json(statesWithConsumer)>>

\* (mutant) the reason follows the verdict on the next line
CanIDeployTextNoBlank(result) ==
    <<Lit(IF result.summary.deployable THEN "[check mark]" ELSE "[cross mark]"),
      Lit(" "),
      Lit(IF result.summary.deployable THEN "CAN DEPLOY" ELSE "CANNOT DEPLOY"),
      Lit("\n"), Str(result.summary.reason), Lit("\n\n"), Json(result)>>

\* the text of the can_i_deploy case: `${emoji} ${status}\n\n${reason}\n\n`
\* followed by JSON.stringify(result, null, 2); the two emoji are written
\* "[check mark]" and "[cross mark]"
CanIDeployText(result) ==
    <<Lit(IF result.summary.deployable THEN "[check mark]" ELSE "[cross mark]"),
      Lit(" "),
      Lit(IF result.summary.deployable THEN "CAN DEPLOY" ELSE "CANNOT DEPLOY"),
      Lit("\n\n"), Str(result.summary.reason), Lit("\n\n"), Json(result)>>

\* What a case of the switch does with the body `data` of its (last) answer:
\* the client function's result, then the text of the envelope.  `held` is
\* the result of the first fetch of list_providers.  ok = FALSE: the case
\* throws a TypeError with that message.
Reshape(name, input, held, data) ==
    LET Ok(text) == [ok |-> TRUE, text |-> text, message |-> <<>>]
        Throw(message) == [ok |-> FALSE, text |-> <<>>, message |-> message]
    IN CASE name = "list_pacticipants" ->
              Ok(<<Json(MapPick(listPacticipants(data), {"name"}))>>)
         [] name = "list_providers" ->
              Ok(<<Json(MapPick(listProviders(held, getLatestPacts(data)),
                                {"name"}))>>)
         [] name = "get_pacticipant" ->
              Ok(<<Json(Pick(data, {"name", "displayName", "repositoryUrl",
                                    "repositoryName", "mainBranch",
                                    "createdAt", "updatedAt"}))>>)
         [] name = "get_provider_states" ->
              Ok(ProviderStatesText(input, getProviderStates(data)))
         [] name = "get_provider_pacts" ->
              LET pacts == getProviderPacts(getLatestPacts(data),
                                            input.provider_name)
              IN Ok(<<Json([n \in DOMAIN pacts |-> PactSummary(pacts[n])])>>)
         [] name = "get_consumer_pacts" ->
              LET pacts == getConsumerPacts(getLatestPacts(data),
                                            input.consumer_name)
              IN Ok(<<Json([n \in DOMAIN pacts |-> PactSummary(pacts[n])])>>)
         [] name \in {"get_pact", "get_pact_version",
                      "get_latest_verification_results_for_pact_version",
                      "get_previous_distinct_pact"} ->
              Ok(<<Json(data)>>)
         [] name = "can_i_deploy" ->
              IF ~Has(data, "summary") THEN Throw(CannotRead("deployable"))
              ELSE Ok(CanIDeployText(data))
         [] name = "list_environments" ->
              Ok(<<Json(MapPick(listEnvironments(data),
                                {"name", "displayName", "production", "uuid",
                                 "createdAt"}))>>)
         [] name = "get_pacticipant_branches" ->
              Ok(<<Json(MapPick(getBranches(data),
                                {"name", "createdAt", "updatedAt"}))>>)
         [] name = "get_pacticipant_branch_latest_version" ->
              Ok(<<Json(Rename(data, "number", "version")
                        @@ Pick(data, {"branch", "buildUrl", "createdAt"}))>>)
         [] name = "get_currently_deployed_versions" ->
              IF ~Has(data, "environment") THEN Throw(CannotRead("uuid"))
              ELSE IF ~Has(data, "deployedVersions") THEN Throw(CannotRead("map"))
              ELSE Ok(<<Json(EnvironmentVersions(data, "deployedVersions",
                                                 "currentlyDeployed"))>>)
         [] name = "get_currently_supported_versions" ->
              IF ~Has(data, "environment") THEN Throw(CannotRead("uuid"))
              ELSE IF ~Has(data, "releasedVersions") THEN Throw(CannotRead("map"))
              ELSE Ok(<<Json(EnvironmentVersions(data, "releasedVersions",
                                                 "currentlySupported"))>>)

\* ------------------------------------------------------------------------
\* State
\* ------------------------------------------------------------------------

VARIABLES
    env,        \* process.env: the four PACT_BROKER_* variables
    registry,   \* the contents of the remote registry
    inv,        \* the invocations of the CallTool handler, one per slot
    listed,     \* the answer to the last ListTools request, if any
    probe       \* the last application of a pure helper, if any

vars == <<env, registry, inv, listed, probe>>

\* the invocations the host may have open at the same time
Slots == {1, 2}

\* An invocation: pc is "idle" (no call), "fetch" (suspended in fetchJSON)
\* or "done" (the envelope is returned).  name and args are the request;
\* input is the parsed arguments, config the result of buildConfig, stage
\* the number of the fetch awaited, held the pacticipants list_providers
\* keeps across its second fetch.  requests logs the GETs sent, resps the
\* kind of each answer and steps the steps taken, in order.
Idle ==
    [pc |-> "idle", name |-> "", args |-> None, input |-> EmptyObj,
     config |-> None, stage |-> 0, held |-> <<>>, requests |-> <<>>,
     resps |-> <<>>, steps |-> <<>>, envelope |-> None]

\* the argument objects the host passes with a tool name: none at all, or
\* an object giving any of the tool's fields (or of `name` for an unknown
\* tool) and of the undeclared fields any of the values
FieldsFor(name) ==
    IF name \in ToolNames THEN Range(SchemaOf(name)) ELSE {"name"}

ArgsFor(name) ==
    {None} \cup
    {Some(f @@ x) :
       f \in UNION {[S -> ArgVals] : S \in SUBSET FieldsFor(name)},
       x \in UNION {[S -> {StrV(<<"x">>)}] : S \in SUBSET ExtraFields}}

Init ==
    /\ env \in Environments
    /\ registry \in Registries
    /\ inv = [i \in Slots |-> Idle]
    /\ listed = None
    /\ probe = None

\* ------------------------------------------------------------------------
\* The CallTool handler
\* ------------------------------------------------------------------------

\* the handler returns
Return(call, envelope) ==
    [call EXCEPT !.pc = "done", !.envelope = Some(envelope)]

\* (mutant) list_providers starts its two fetches together
FetchInParallel(call, endpoint) ==
    LET get(e) == Get(Url(e, call.config[1], call.input), call.config[1])
    IN [call EXCEPT
          !.pc = "fetch",
          !.stage = @ + 1,
          !.requests = IF call.name = "list_providers" /\ call.stage = 0
                       THEN @ \o <<get("pacticipants"), get("pacts_latest")>>
                       ELSE Append(@, get(endpoint)),
          !.steps = Append(@, "request")]

\* fetchJSON(url, config) up to its first await
Fetch(call, endpoint) ==
    [call EXCEPT
       !.pc = "fetch",
       !.stage = @ + 1,
       !.requests = Append(@, Get(Url(endpoint, call.config[1], call.input),
                                  call.config[1])),
       !.steps = Append(@, "request")]

\* (mutant) the configuration is read before the arguments are validated
CallConfigFirst(name, args, e) ==
    LET call == [Idle EXCEPT !.name = name, !.args = args]
    IN IF name \notin ToolNames
       THEN Return([call EXCEPT !.steps = <<"lookup">>], UnknownTool(name))
       ELSE LET parsed == Parse(SchemaOf(name), args)
                built == buildConfig(e)
            IN IF ~built.ok
               THEN Return([call EXCEPT !.steps = <<"lookup", "config">>],
                           Caught(Error(built.message)))
               ELSE IF ~parsed.ok
               THEN Return([call EXCEPT !.steps = <<"lookup", "config", "validate">>],
                           Caught(ZodError(parsed.issues)))
               ELSE Fetch([call EXCEPT !.input = parsed.data,
                                       !.config = built.config,
                                       !.steps = <<"lookup", "config", "validate">>],
                          Endpoint(name, 1))

\* the handler from its entry to its first await or to its return
Call(name, args, e) ==
    LET call == [Idle EXCEPT !.name = name, !.args = args]
    IN IF name \notin ToolNames
       THEN Return([call EXCEPT !.steps = <<"lookup">>], UnknownTool(name))
       ELSE LET parsed == Parse(SchemaOf(name), args)
                built == buildConfig(e)
            IN IF ~parsed.ok
               THEN Return([call EXCEPT !.steps = <<"lookup", "validate">>],
                           Caught(ZodError(parsed.issues)))
               ELSE IF ~built.ok
               THEN Return([call EXCEPT !.input = parsed.data,
                                        !.steps = <<"lookup", "validate", "config">>],
                           Caught(Error(built.message)))
               ELSE Fetch([call EXCEPT !.input = parsed.data,
                                       !.config = built.config,
                                       !.steps = <<"lookup", "validate", "config">>],
                          Endpoint(name, 1))

\* (mutant) a finished invocation is kept, and the same invocation made
\* again is given the kept envelope without any request
InvokeServedFromKept(i) ==
    /\ \/ /\ inv[i].pc = "idle"
          /\ \E name \in ToolNames \cup UnknownNames :
               \E args \in ArgsFor(name) :
                  inv' = [inv EXCEPT ![i] = Call(name, args, env)]
       \/ /\ inv[i].pc = "done"
          /\ inv[i].resps # <<>>
          /\ inv' = [inv EXCEPT ![i] =
                       [inv[i] EXCEPT !.requests = <<>>, !.resps = <<>>]]
    /\ UNCHANGED <<env, registry, listed, probe>>

\* the host invokes a tool
Invoke(i) ==
    /\ inv[i].pc = "idle"
    /\ \E name \in ToolNames \cup UnknownNames :
         \E args \in ArgsFor(name) :
            inv' = [inv EXCEPT ![i] = Call(name, args, env)]
    /\ UNCHANGED <<env, registry, listed, probe>>

LastUrl(call) == call.requests[Len(call.requests)].url

\* the answer a suspended call is resumed with, as logged in resps
Answer(kind, status, body) == [kind |-> kind, status |-> status, body |-> body]

\* (mutant) list_providers falls back to the pacticipants it already has
\* when its second fetch is rejected
RejectedPartial(call) ==
    IF call.name = "list_providers" /\ call.stage = 2
    THEN Return([call EXCEPT !.resps = Append(@, Answer("neterr", 0, None))],
                Envelope(<<Json(MapPick(call.held, {"name"}))>>))
    ELSE Return([call EXCEPT !.resps = Append(@, Answer("neterr", 0, None))],
                Caught(Error(FetchRejected(LastUrl(call)))))

\* fetch() rejects (network failure): fetchJSON throws, the handler catches
Rejected(call) ==
    Return([call EXCEPT !.resps = Append(@, Answer("neterr", 0, None))],
           Caught(Error(FetchRejected(LastUrl(call)))))

\* (mutant) a failed request is sent again
NotOkRetry(call, status, body) ==
    IF Len(call.requests) < 3
    THEN [call EXCEPT
            !.resps = Append(@, Answer("status", status, body)),
            !.requests = Append(@, call.requests[Len(call.requests)])]
    ELSE Return([call EXCEPT !.resps = Append(@, Answer("status", status, body))],
                Caught(Error(RequestFailed(status, body))))

\* the answer is not 2xx: fetchJSON reads the body, throws, the handler catches
NotOk(call, status, body) ==
    Return([call EXCEPT !.resps = Append(@, Answer("status", status, body))],
           Caught(Error(RequestFailed(status, body))))

\* (mutant) the rejection of response.json() is never delivered: the handler
\* stays suspended although the request was answered
BadJsonStalls(call) ==
    [call EXCEPT !.pc = "stalled",
                 !.resps = Append(@, Answer("badjson", 200, None))]

\* the answer is 2xx, its body is not JSON: response.json() rejects
BadJson(call) ==
    Return([call EXCEPT !.resps = Append(@, Answer("badjson", 200, None))],
           Caught(Error(InvalidJson(LastUrl(call)))))

\* (mutant) the second fetch of list_providers reads the configuration again
ResumeRereadsConfig(call, data) ==
    LET got == [call EXCEPT
                  !.resps = Append(@, Answer(IF data = EmptyObj THEN "empty"
                                             ELSE "json", 200, None)
                                      @@ [data |-> data])]
        again == buildConfig(env)
    IN IF call.name = "list_providers" /\ call.stage = 1
       THEN Fetch([got EXCEPT !.held = listPacticipants(data),
                              !.config = IF again.ok THEN again.config ELSE @],
                  Endpoint(call.name, 2))
       ELSE LET r == Reshape(call.name, call.input, call.held, data)
                shaped == [got EXCEPT !.steps = Append(@, "reshape")]
            IN IF r.ok THEN Return(shaped, Envelope(r.text))
               ELSE Return(shaped, Caught(Error(r.message)))

\* the answer is 2xx with the JSON body `data`: fetchJSON returns it and the
\* handler goes on, to the second fetch of list_providers or to its return
Resume(call, data) ==
    LET got == [call EXCEPT
                  !.resps = Append(@, Answer(IF data = EmptyObj THEN "empty"
                                             ELSE "json", 200, None)
                                      @@ [data |-> data])]
    IN IF call.name = "list_providers" /\ call.stage = 1
       THEN Fetch([got EXCEPT !.held = listPacticipants(data)],
                  Endpoint(call.name, 2))
       ELSE LET r == Reshape(call.name, call.input, call.held, data)
                shaped == [got EXCEPT !.steps = Append(@, "reshape")]
            IN IF r.ok THEN Return(shaped, Envelope(r.text))
               ELSE Return(shaped, Caught(Error(r.message)))

FetchRejects(i) ==
    /\ inv[i].pc = "fetch"
    /\ inv' = [inv EXCEPT ![i] = Rejected(inv[i])]
    /\ UNCHANGED <<env, registry, listed, probe>>

FetchNotOk(i) ==
    /\ inv[i].pc = "fetch"
    /\ \E status \in NotOkStatuses, body \in NotOkBodies :
         inv' = [inv EXCEPT ![i] = NotOk(inv[i], status, body)]
    /\ UNCHANGED <<env, registry, listed, probe>>

FetchBadJson(i) ==
    /\ inv[i].pc = "fetch"
    /\ inv' = [inv EXCEPT ![i] = BadJson(inv[i])]
    /\ UNCHANGED <<env, registry, listed, probe>>

\* (mutant) listProviders keeps the pacticipants in a variable of the
\* module, which every invocation reads (here: the one of the first slot)
FetchOkSharedHeld(i) ==
    /\ inv[i].pc = "fetch"
    /\ \E data \in OkBodies(Endpoint(inv[i].name, inv[i].stage), registry) :
         inv' = [inv EXCEPT
                   ![i] = Resume([inv[i] EXCEPT !.held = inv[1].held], data)]
    /\ UNCHANGED <<env, registry, listed, probe>>

FetchOk(i) ==
    /\ inv[i].pc = "fetch"
    /\ \E data \in OkBodies(Endpoint(inv[i].name, inv[i].stage), registry) :
         inv' = [inv EXCEPT ![i] = Resume(inv[i], data)]
    /\ UNCHANGED <<env, registry, listed, probe>>

\* the host has the envelope; the slot is free for the next invocation
Complete(i) ==
    /\ inv[i].pc = "done"
    /\ inv' = [inv EXCEPT ![i] = Idle]
    /\ UNCHANGED <<env, registry, listed, probe>>

\* ------------------------------------------------------------------------
\* The surroundings
\* ------------------------------------------------------------------------

\* one variable of the process environment is set or unset
SetEnv ==
    /\ \E k \in DOMAIN env :
         \E e \in Environments :
            /\ e[k] # env[k]
            /\ \A j \in DOMAIN env \ {k} : e[j] = env[j]
            /\ env' = e
    /\ UNCHANGED <<registry, inv, listed, probe>>

\* another client of the registry changes its contents
RegistryChanges ==
    /\ \E r \in Registries \ {registry} : registry' = r
    /\ UNCHANGED <<env, inv, listed, probe>>

\* ------------------------------------------------------------------------
\* Specification: the host keeps one invocation open at a time
\* ------------------------------------------------------------------------

Next ==
    \/ Invoke(1)
    \/ FetchRejects(1)
    \/ FetchNotOk(1)
    \/ FetchBadJson(1)
    \/ FetchOk(1)
    \/ Complete(1)
    \/ SetEnv
    \/ RegistryChanges

Spec == Init /\ [][Next]_vars

\* ------------------------------------------------------------------------
\* Specification: the host also asks for the list of tools
\* ------------------------------------------------------------------------

\* (mutant) the list is given only when the server is configured
ListToolsUnlessUnconfigured ==
    /\ listed' = IF buildConfig(env).ok THEN Some(ListTools) ELSE Some(<<>>)
    /\ UNCHANGED <<env, registry, inv, probe>>

\* the ListTools handler: no input, no await, the same literal every time
ListToolsRequest ==
    /\ listed' = Some(ListTools)
    /\ UNCHANGED <<env, registry, inv, probe>>

NextTools ==
    \/ ListToolsRequest
    \/ Invoke(1)
    \/ FetchRejects(1)
    \/ FetchNotOk(1)
    \/ FetchBadJson(1)
    \/ FetchOk(1)
    \/ Complete(1)
    \/ SetEnv
    \/ RegistryChanges

SpecTools == Init /\ [][NextTools]_vars

\* ------------------------------------------------------------------------
\* Specification: two invocations of the same tool that differ only in the
\* fields the schema does not declare, under the same configuration and
\* with the same answers from the registry
\* ------------------------------------------------------------------------

\* an arguments object without the members the tool's schema does not declare
Declared(name, obj) == Pick(obj, Range(SchemaOf(name)))

InvokeTwin ==
    /\ \A i \in Slots : inv[i].pc = "idle"
    /\ \E name \in ToolNames :
         \E args \in ArgsFor(name) \ {None} :
            inv' = [inv EXCEPT
                      ![1] = Call(name, args, env),
                      ![2] = Call(name, Some(Declared(name, args[1])), env)]
    /\ UNCHANGED <<env, registry, listed, probe>>

TwinRejects ==
    /\ \A i \in Slots : inv[i].pc = "fetch"
    /\ inv' = [i \in Slots |-> Rejected(inv[i])]
    /\ UNCHANGED <<env, registry, listed, probe>>

TwinNotOk ==
    /\ \A i \in Slots : inv[i].pc = "fetch"
    /\ \E status \in NotOkStatuses, body \in NotOkBodies :
         inv' = [i \in Slots |-> NotOk(inv[i], status, body)]
    /\ UNCHANGED <<env, registry, listed, probe>>

TwinBadJson ==
    /\ \A i \in Slots : inv[i].pc = "fetch"
    /\ inv' = [i \in Slots |-> BadJson(inv[i])]
    /\ UNCHANGED <<env, registry, listed, probe>>

TwinOk ==
    /\ \A i \in Slots : inv[i].pc = "fetch"
    /\ \E data \in OkBodies(Endpoint(inv[1].name, inv[1].stage), registry) :
         inv' = [i \in Slots |-> Resume(inv[i], data)]
    /\ UNCHANGED <<env, registry, listed, probe>>

TwinComplete ==
    /\ \A i \in Slots : inv[i].pc = "done"
    /\ inv' = [i \in Slots |-> Idle]
    /\ UNCHANGED <<env, registry, listed, probe>>

NextTwin ==
    \/ InvokeTwin
    \/ TwinRejects
    \/ TwinNotOk
    \/ TwinBadJson
    \/ TwinOk
    \/ TwinComplete
    \/ SetEnv
    \/ RegistryChanges

SpecTwin == Init /\ [][NextTwin]_vars

\* ------------------------------------------------------------------------
\* Specification: two invocations open at the same time, each resumed when
\* its own answer arrives
\* ------------------------------------------------------------------------

\* the tools and arguments of the interleaved invocations
PairTools == {"list_providers", "can_i_deploy"}
PairArgs(name) ==
    {None, Some([k \in Range(SchemaOf(name)) |-> StrV(<<"A">>)])}

InvokePair(i) ==
    /\ inv[i].pc = "idle"
    /\ \E name \in PairTools :
         \E args \in PairArgs(name) :
            inv' = [inv EXCEPT ![i] = Call(name, args, env)]
    /\ UNCHANGED <<env, registry, listed, probe>>

NextPair ==
    \/ \E i \in Slots :
          \/ InvokePair(i)
          \/ FetchRejects(i)
          \/ FetchNotOk(i)
          \/ FetchBadJson(i)
          \/ FetchOk(i)
          \/ Complete(i)
    \/ RegistryChanges

SpecPair == Init /\ [][NextPair]_vars

\* ------------------------------------------------------------------------
\* Specification: the environment of the process changes between and during
\* invocations, the base URL included
\* ------------------------------------------------------------------------

\* the values the variables of the environment change between
WideBaseUrls == {None, Some(<<"http://b">>), Some(<<"http://c">>)}
WideTokens == {None, Some(<<"t">>), Some(<<"t2">>)}
WideEnvironments ==
    [PACT_BROKER_BASE_URL : WideBaseUrls, PACT_BROKER_USERNAME : {None},
     PACT_BROKER_PASSWORD : {None}, PACT_BROKER_TOKEN : WideTokens]

\* the tools invoked under the changing environment: one with two fetches,
\* one with one fetch and an argument
EnvTools == {"list_providers", "get_pacticipant"}

InitEnv ==
    /\ env \in WideEnvironments
    /\ registry \in Registries
    /\ inv = [i \in Slots |-> Idle]
    /\ listed = None
    /\ probe = None

InvokeEnv(i) ==
    /\ inv[i].pc = "idle"
    /\ \E name \in EnvTools :
         \E args \in PairArgs(name) :
            inv' = [inv EXCEPT ![i] = Call(name, args, env)]
    /\ UNCHANGED <<env, registry, listed, probe>>

\* the host's environment is edited: one variable at a time
SetEnvWide ==
    /\ \E k \in DOMAIN env :
         \E e \in WideEnvironments :
            /\ e[k] # env[k]
            /\ \A j \in DOMAIN env \ {k} : e[j] = env[j]
            /\ env' = e
    /\ UNCHANGED <<registry, inv, listed, probe>>

NextEnv ==
    \/ InvokeEnv(1)
    \/ FetchRejects(1)
    \/ FetchNotOk(1)
    \/ FetchBadJson(1)
    \/ FetchOk(1)
    \/ Complete(1)
    \/ SetEnvWide

SpecEnv == InitEnv /\ [][NextEnv]_vars

\* ------------------------------------------------------------------------
\* Specification: the helpers of the client applied to inputs of their own
\* ------------------------------------------------------------------------

\* the state names, the entries of providerStates and the interactions of
\* the pacts that are mined
StateNames == {<<>>, <<"a">>, <<"B">>}
StateEntries == {[name |-> x] : x \in {<<"a">>, <<"b">>}}
UnnamedLists == {<<[name |-> <<>>]>>, <<[params |-> EmptyObj]>>}
MaxStates == 2
StateLists ==
    UNION {[1..n -> StateEntries] : n \in 0..MaxStates} \cup UnnamedLists
Interactions ==
    {[description |-> <<"d">>] @@ legacy @@ modern :
       legacy \in {EmptyObj} \cup {[providerState |-> x] : x \in StateNames},
       modern \in {EmptyObj} \cup {[providerStates |-> l] : l \in StateLists}}
MaxInteractions == 2
MinedPacts ==
    {[consumer |-> [name |-> <<"A">>], provider |-> [name |-> <<"B">>]]}
    \cup {[consumer |-> [name |-> <<"A">>], provider |-> [name |-> <<"B">>],
           interactions |-> l] :
            l \in UNION {[1..n -> Interactions] : n \in 0..MaxInteractions}}

\* the environment and the registry play no part
InitPure ==
    /\ env = [PACT_BROKER_BASE_URL |-> None, PACT_BROKER_USERNAME |-> None,
              PACT_BROKER_PASSWORD |-> None, PACT_BROKER_TOKEN |-> None]
    /\ registry = [pacticipants |-> <<>>, pacts |-> <<>>]
    /\ inv = [i \in Slots |-> Idle]
    /\ listed = None
    /\ probe = None

Applied(fn, input, output) ==
    Some([fn |-> fn, input |-> input, output |-> output])

ApplyExtractProviderStates ==
    /\ probe = None
    /\ \E pact \in MinedPacts :
          probe' = Applied("extractProviderStates", pact,
                           extractProviderStates(pact))
    /\ UNCHANGED <<env, registry, inv, listed>>

\* the names put in a path, their length and their characters
PathChars == {"A", "/", "?", "#", "%", " "}
MaxName == 2
PathNames == UNION {[1..n -> PathChars] : n \in 1..MaxName}

\* the endpoints of the client functions with a name in the path, and the
\* arguments each takes
PathEndpoints ==
    {"pacticipant", "provider_states", "pact", "branches", "branch_latest"}
PathArgs(endpoint) ==
    CASE endpoint \in {"pacticipant", "branches"} -> {"name"}
      [] endpoint = "provider_states" -> {"provider_name"}
      [] endpoint = "pact" -> {"provider_name", "consumer_name"}
      [] endpoint = "branch_latest" -> {"pacticipant", "branch"}

ProbeConfig ==
    [brokerUrl |-> <<"http://b">>, authToken |-> None, bearerToken |-> None]

ApplyUrl ==
    /\ probe = None
    /\ \E endpoint \in PathEndpoints :
          \E a \in [PathArgs(endpoint) -> PathNames] :
             probe' = Applied("url", [endpoint |-> endpoint, args |-> a],
                              Url(endpoint, ProbeConfig, a))
    /\ UNCHANGED <<env, registry, inv, listed>>

\* the credentials of the environment: unset, empty or set
Credentials(value) == {None, Some(<<>>), Some(<<value>>)}
CredentialEnvironments ==
    [PACT_BROKER_BASE_URL : {Some(<<"http://b">>)},
     PACT_BROKER_USERNAME : Credentials("u"),
     PACT_BROKER_PASSWORD : Credentials("p"),
     PACT_BROKER_TOKEN : Credentials("t")]

\* buildHeaders(buildConfig()) under an environment
ApplyBuildHeaders ==
    /\ probe = None
    /\ \E e \in CredentialEnvironments :
          probe' = Applied("buildHeaders", e,
                           buildHeaders(buildConfig(e).config[1]))
    /\ UNCHANGED <<env, registry, inv, listed>>

\* the pacticipant lists and the pact lists the filters are applied to:
\* names that differ in case only, and repeated entries
CaseNames == {<<"A">>, <<"B">>, <<"b">>}
MaxPacticipants == 3
PacticipantLists ==
    UNION {[1..n -> {Pacticipant(x) : x \in CaseNames}] :
             n \in 0..MaxPacticipants}
MaxPacts == 2
PactLists ==
    UNION {[1..n -> {RawPact(<<"C">>, x) : x \in CaseNames}] : n \in 0..MaxPacts}

\* listProviders and getProviderPacts over the same latest pacts
ApplyListProviders ==
    /\ probe = None
    /\ \E all \in PacticipantLists :
          \E raw \in PactLists :
             \E asked \in {<<"B">>, <<"b">>} :
                LET latestPacts == getLatestPacts([pacts |-> raw])
                IN probe' =
                     Applied("listProviders",
                             [allPacticipants |-> all,
                              latestPacts |-> latestPacts,
                              providerName |-> asked],
                             [providers |-> listProviders(all, latestPacts),
                              providerPacts |->
                                getProviderPacts(latestPacts, asked)])
    /\ UNCHANGED <<env, registry, inv, listed>>

NextPure ==
    \/ ApplyExtractProviderStates
    \/ ApplyUrl
    \/ ApplyBuildHeaders
    \/ ApplyListProviders

SpecPure == InitPure /\ [][NextPure]_vars

\* ------------------------------------------------------------------------
\* Specification: every request is answered in the end.  fetch() settles
\* when the answer or the failure arrives and the event loop then resumes
\* the suspended handler: weak fairness of each invocation's answer
\* ------------------------------------------------------------------------

\* the request the invocation waits for settles, one way or another
Settles(i) ==
    \/ FetchRejects(i)
    \/ FetchNotOk(i)
    \/ FetchBadJson(i)
    \/ FetchOk(i)

NextLive ==
    \E i \in Slots :
       \/ InvokePair(i)
       \/ Settles(i)
       \/ Complete(i)

SpecLive ==
    Init /\ [][NextLive]_vars /\ \A i \in Slots : WF_vars(Settles(i))

\* ------------------------------------------------------------------------
\* Properties
\* ------------------------------------------------------------------------

\* the invocations that have been made and not yet handed back
Calls == {i \in Slots : inv[i].pc # "idle"}

\* the text of the envelope an invocation returned
TextOf(call) == call.envelope[1].content[1].text

IsErrorEnvelope(call) ==
    /\ "isError" \in DOMAIN call.envelope[1]
    /\ call.envelope[1].isError = TRUE

\* C2: an invocation whose name matches no case of the switch has returned,
\* whatever its arguments and the configuration are, the error envelope
\* whose text is `Unknown tool: "<name>"` with the name as it was passed,
\* and has sent no request.
C2_UnknownToolEnvelope ==
    \A i \in Calls :
       inv[i].name \notin ToolNames =>
          /\ inv[i].pc = "done"
          /\ inv[i].envelope =
               Some([content |-> <<[type |-> "text",
                                    text |-> <<Lit("Unknown tool: \""),
                                               Tool(inv[i].name), Lit("\"")>>]>>,
                     isError |-> TRUE])
          /\ inv[i].requests = <<>>

\* an unknown name was invoked with invalid-looking arguments while no base
\* URL was configured, and the envelope is back
C2_Witness ==
    \E i \in Calls :
       /\ inv[i].name = "bogus"
       /\ inv[i].args # None
       /\ "name" \notin DOMAIN inv[i].args[1]
       /\ env.PACT_BROKER_BASE_URL = None
       /\ inv[i].pc = "done"
       /\ IsErrorEnvelope(inv[i])

\* what the claims say of an invocation, stated on its request and answers

\* some required field of the tool is missing or is not a string
FieldBad(args, k) ==
    \/ args = None
    \/ k \notin DOMAIN args[1]
    \/ args[1][k].t # "string"

\* the arguments do not fit the tool's schema (a call without an arguments
\* object included)
ArgsInvalid(call) ==
    \/ call.args = None
    \/ \E k \in Range(SchemaOf(call.name)) : FieldBad(call.args, k)

\* the invocation returned from the validation of its arguments
ValidationFailed(call) ==
    call.pc = "done" /\ call.steps = <<"lookup", "validate">>

BaseConfigured(e) == e.PACT_BROKER_BASE_URL \notin {None, Some(<<>>)}

BaseUrlRequired ==
    <<Lit("Error: "),
      Lit("PACT_BROKER_BASE_URL environment variable is required")>>

\* an answer that makes fetchJSON throw
Failed(answer) == answer.kind \in {"neterr", "status", "badjson"}

\* the tools whose case reads a member of a member of the answer
Dereferencing ==
    {"can_i_deploy", "get_currently_deployed_versions",
     "get_currently_supported_versions"}

\* the last answer of the call could not be used: the request failed, the
\* body was not JSON, or it lacks the member the tool's case dereferences
LastAnswerUnusable(call) ==
    LET a == call.resps[Len(call.resps)]
    IN Failed(a) \/ (a.kind = "empty" /\ call.name \in Dereferencing)

\* the slot i takes a step of the handler
Steps(i) == inv[i].pc \in {"idle", "fetch"} /\ inv'[i] # inv[i]

IsPrefix(s, t) == Len(s) <= Len(t) /\ \A n \in DOMAIN s : s[n] = t[n]

\* C1: every step of the handler either suspends it in a fetch or returns
\* an envelope whose content is exactly one text item; the envelope carries
\* isError (and then TRUE) exactly when the name was unknown, the arguments
\* were invalid, the base URL was missing, or the remote answer could not
\* be used (request failed, body unparseable or without the members read).
C1_EnvelopeAlways ==
    [][\A i \in Slots :
         Steps(i) =>
           \/ inv'[i].pc = "fetch" /\ inv'[i].envelope = None
           \/ /\ inv'[i].pc = "done"
              /\ Len(inv'[i].envelope) = 1
              /\ LET e == inv'[i].envelope[1]
                     cause ==
                       IF inv[i].pc = "idle"
                       THEN \/ inv'[i].name \notin ToolNames
                            \/ ArgsInvalid(inv'[i])
                            \/ ~BaseConfigured(env)
                       ELSE LastAnswerUnusable(inv'[i])
                 IN /\ DOMAIN e \subseteq {"content", "isError"}
                    /\ Len(e.content) = 1
                    /\ DOMAIN e.content[1] = {"type", "text"}
                    /\ e.content[1].type = "text"
                    /\ ("isError" \in DOMAIN e) <=> cause
                    /\ ("isError" \in DOMAIN e) => e.isError = TRUE]_vars

\* a call came back with an error after an unparseable answer, and another
\* state has a call back without the flag
C1_Witness ==
    \E i \in Calls :
       /\ inv[i].pc = "done"
       /\ inv[i].resps # <<>>
       /\ inv[i].resps[Len(inv[i].resps)].kind = "badjson"
       /\ IsErrorEnvelope(inv[i])

\* the entries the claim C3 expects in the message: one per required field
\* that is missing or not a string, in the order of the schema
RECURSIVE ExpectedEntries(_, _)
ExpectedEntries(fields, args) ==
    IF fields = <<>> THEN <<>>
    ELSE LET k == fields[1]
             rest == SelectSeq(Tail(fields), LAMBDA f : FieldBad(args, f))
             received == IF args = None \/ k \notin DOMAIN args[1]
                         THEN "undefined" ELSE args[1][k].t
         IN (IF FieldBad(args, k)
             THEN <<Lit(k), Lit(": "), Lit("Invalid input: expected "),
                    Lit("string"), Lit(", received "), Lit(received)>>
                  \o (IF rest # <<>> THEN <<Lit(", ")>> ELSE <<>>)
             ELSE <<>>)
            \o ExpectedEntries(Tail(fields), args)

\* C3: an invocation whose arguments failed validation returned the error
\* envelope `Invalid arguments: <field>: <reason>, ...` with one entry for
\* every required field that is missing or not a string; get_pacticipant
\* without `name` names the field `name`.
C3_InvalidArgumentsMessage ==
    \A i \in Calls :
       ValidationFailed(inv[i]) =>
          /\ IsErrorEnvelope(inv[i])
          /\ TextOf(inv[i]) =
               <<Lit("Error: "), Lit("Invalid arguments: ")>>
               \o ExpectedEntries(SchemaOf(inv[i].name), inv[i].args)

\* C3, for the invocations that carry an arguments object
C3_WithArgumentsObject ==
    \A i \in Calls :
       ValidationFailed(inv[i]) /\ inv[i].args # None =>
          /\ IsErrorEnvelope(inv[i])
          /\ TextOf(inv[i]) =
               <<Lit("Error: "), Lit("Invalid arguments: ")>>
               \o ExpectedEntries(SchemaOf(inv[i].name), inv[i].args)

\* C4: for a registered tool, validation fails exactly when some required
\* field is missing or is not a string; a tool without required fields
\* never fails validation, with or without an arguments object.
C4_ValidationExact ==
    \A i \in Calls :
       inv[i].name \in ToolNames =>
          (ValidationFailed(inv[i]) <=>
             \E k \in Range(SchemaOf(inv[i].name)) : FieldBad(inv[i].args, k))

\* C4, for the invocations that carry an arguments object
C4_WithArgumentsObject ==
    \A i \in Calls :
       inv[i].name \in ToolNames /\ inv[i].args # None =>
          (ValidationFailed(inv[i]) <=>
             \E k \in Range(SchemaOf(inv[i].name)) : FieldBad(inv[i].args, k))

\* C5: two invocations of a tool under the same configuration and with the
\* same answers, the first with fields its schema does not declare and the
\* second without them, agree at every moment on everything but the
\* arguments object itself: the outcome of validation, the validated input,
\* the requests sent and the envelope returned.
C5_ExtraFieldsIgnored ==
    [inv[1] EXCEPT !.args = None] = [inv[2] EXCEPT !.args = None]

\* a valid arguments object with an undeclared field went all the way to a
\* success envelope, as did its twin without the field
C5_Witness ==
    /\ inv[1].pc = "done" /\ inv[2].pc = "done"
    /\ inv[1].name = "get_pacticipant"
    /\ "extra" \in DOMAIN inv[1].args[1]
    /\ "extra" \notin DOMAIN inv[2].args[1]
    /\ ~ArgsInvalid(inv[1])
    /\ Len(inv[1].requests) = 1
    /\ ~IsErrorEnvelope(inv[1])
    /\ inv[1].envelope = inv[2].envelope

\* C6: a registered tool invoked with valid arguments while
\* PACT_BROKER_BASE_URL is unset or empty returns at once the error
\* envelope saying the variable is required, and sends no request.
C6_MissingBaseUrl ==
    [][\A i \in Slots :
         /\ inv[i].pc = "idle" /\ inv'[i].pc # "idle"
         /\ inv'[i].name \in ToolNames
         /\ ~ArgsInvalid(inv'[i])
         /\ ~BaseConfigured(env)
         => /\ inv'[i].pc = "done"
            /\ IsErrorEnvelope(inv'[i])
            /\ TextOf(inv'[i]) = BaseUrlRequired
            /\ inv'[i].requests = <<>>]_vars

\* a tool was invoked with valid arguments while the base URL was the empty
\* string, and the envelope is back
C6_Witness ==
    \E i \in Calls :
       /\ inv[i].name = "get_pact"
       /\ ~ArgsInvalid(inv[i])
       /\ env.PACT_BROKER_BASE_URL = Some(<<>>)
       /\ inv[i].pc = "done"
       /\ TextOf(inv[i]) = BaseUrlRequired
       /\ inv[i].requests = <<>>

\* the orders in which a handler goes through its steps
StepOrders ==
    {<<"lookup", "validate", "config", "request", "reshape">>,
     <<"lookup", "validate", "config", "request", "request", "reshape">>}

\* C7: an invocation goes through lookup, validation, configuration,
\* request(s) and reshaping in that order, and the first step that fails
\* decides the envelope: an unknown name whatever the arguments and the
\* base URL are, invalid arguments whatever the base URL is, then the
\* missing base URL; a request is sent only when all three succeeded.
C7_StepOrder ==
    [][\A i \in Slots :
         /\ inv'[i].pc # "idle" =>
              /\ \E order \in StepOrders : IsPrefix(inv'[i].steps, order)
              /\ inv'[i].requests # <<>> =>
                   /\ inv'[i].name \in ToolNames
                   /\ ~ArgsInvalid(inv'[i])
                   /\ inv'[i].config # None
         /\ inv[i].pc = "idle" /\ inv'[i].pc # "idle" =>
              IF inv'[i].name \notin ToolNames
              THEN /\ inv'[i].pc = "done"
                   /\ TextOf(inv'[i]) =
                        <<Lit("Unknown tool: \""), Tool(inv'[i].name), Lit("\"")>>
                   /\ inv'[i].requests = <<>>
              ELSE IF ArgsInvalid(inv'[i])
              THEN /\ inv'[i].pc = "done"
                   /\ IsPrefix(<<Lit("Error: "), Lit("Invalid arguments: ")>>,
                               TextOf(inv'[i]))
                   /\ inv'[i].requests = <<>>
              ELSE IF ~BaseConfigured(env)
              THEN /\ inv'[i].pc = "done"
                   /\ TextOf(inv'[i]) = BaseUrlRequired
                   /\ inv'[i].requests = <<>>
              ELSE /\ inv'[i].pc = "fetch"
                   /\ Len(inv'[i].requests) = 1]_vars

\* invalid arguments were reported although the base URL was missing too
C7_Witness ==
    \E i \in Calls :
       /\ inv[i].name = "get_pacticipant"
       /\ ArgsInvalid(inv[i])
       /\ ~BaseConfigured(env)
       /\ inv[i].pc = "done"
       /\ inv[i].steps = <<"lookup", "validate">>
       /\ IsPrefix(<<Lit("Error: "), Lit("Invalid arguments: ")>>,
                   TextOf(inv[i]))

\* the text has the part
Carries(text, part) == \E n \in DOMAIN text : text[n] = part

\* C8: an invocation one of whose requests was answered with a status that
\* is not 2xx has returned the error envelope, and its text carries the
\* status, the status text and, when the body is readable and not empty,
\* the body.
C8_NotOkReported ==
    \A i \in Calls :
       \A n \in DOMAIN inv[i].resps :
          LET a == inv[i].resps[n]
          IN a.kind = "status" =>
               /\ inv[i].pc = "done"
               /\ IsErrorEnvelope(inv[i])
               /\ IsPrefix(<<Lit("Error: "), Lit("Pact Broker request failed: ")>>,
                           TextOf(inv[i]))
               /\ Carries(TextOf(inv[i]), Num(a.status))
               /\ Carries(TextOf(inv[i]), Str(StatusText(a.status)))
               /\ a.body \notin {None, Some(<<>>)} =>
                    Carries(TextOf(inv[i]), Str(a.body[1]))

\* a request was answered 404 with a body, and the envelope is back
C8_Witness ==
    \E i \in Calls :
       /\ inv[i].pc = "done"
       /\ inv[i].resps # <<>>
       /\ inv[i].resps[Len(inv[i].resps)] =
            Answer("status", 404, Some(<<"o", "o", "p", "s">>))
       /\ Carries(TextOf(inv[i]), Str(<<"o", "o", "p", "s">>))

\* the number of endpoints a tool reads
EndpointsOf(name) == IF name = "list_providers" THEN 2 ELSE 1

\* C9: an invocation sends at most one request to each endpoint (one in
\* all, two for list_providers), never the same request twice, and none
\* after a request of it failed: a failed answer is the last thing the
\* invocation saw before it returned.
C9_NoRetry ==
    \A i \in Calls :
       /\ Len(inv[i].requests) <= EndpointsOf(inv[i].name)
       /\ \A m, n \in DOMAIN inv[i].requests :
             m # n => inv[i].requests[m].url # inv[i].requests[n].url
       /\ Len(inv[i].resps) <= Len(inv[i].requests)
       /\ \A n \in DOMAIN inv[i].resps :
             Failed(inv[i].resps[n]) =>
                /\ n = Len(inv[i].resps)
                /\ n = Len(inv[i].requests)
                /\ inv[i].pc = "done"

\* list_providers saw its second request fail after its first had succeeded
C9_Witness ==
    \E i \in Calls :
       /\ inv[i].name = "list_providers"
       /\ Len(inv[i].requests) = 2
       /\ Len(inv[i].resps) = 2
       /\ inv[i].resps[1].kind = "json"
       /\ inv[i].resps[2].kind = "status"
       /\ inv[i].pc = "done"

\* the text gives data of the registry: a JSON payload, or the name of a
\* pacticipant the invocation had fetched
GivesPayload(call) ==
    \E n \in DOMAIN TextOf(call) :
       LET part == TextOf(call)[n]
       IN \/ "json" \in DOMAIN part
          \/ /\ "str" \in DOMAIN part
             /\ \E m \in DOMAIN call.held : part.str = call.held[m].name

\* C10: an invocation that returned an error envelope gave none of the data
\* it had fetched; one that returned a success envelope had every one of
\* its requests answered with a usable body and went through reshaping.
C10_NoPartialResult ==
    \A i \in Calls :
       inv[i].pc = "done" =>
          IF IsErrorEnvelope(inv[i])
          THEN ~GivesPayload(inv[i])
          ELSE /\ Len(inv[i].requests) = EndpointsOf(inv[i].name)
               /\ Len(inv[i].resps) = Len(inv[i].requests)
               /\ \A n \in DOMAIN inv[i].resps : ~Failed(inv[i].resps[n])
               /\ inv[i].steps[Len(inv[i].steps)] = "reshape"

\* list_providers had the pacticipants and its second request failed
C10_Witness ==
    \E i \in Calls :
       /\ inv[i].name = "list_providers"
       /\ inv[i].pc = "done"
       /\ Len(inv[i].resps) = 2
       /\ inv[i].resps[1].kind = "json"
       /\ Failed(inv[i].resps[2])
       /\ inv[i].held # <<>>
       /\ IsErrorEnvelope(inv[i])

\* the variables of the environment give a bearer token / both halves of
\* the basic credential
BearerConfigured(e) == Truthy(e.PACT_BROKER_TOKEN)
BasicConfigured(e) ==
    Truthy(e.PACT_BROKER_USERNAME) /\ Truthy(e.PACT_BROKER_PASSWORD)

\* the Authorization header the claim C11 expects under an environment
ExpectedAuthorization(e) ==
    IF BearerConfigured(e)
    THEN Some(<<"Bearer ">> \o e.PACT_BROKER_TOKEN[1])
    ELSE IF BasicConfigured(e)
    THEN Some(<<"Basic ">>
              \o Base64(e.PACT_BROKER_USERNAME[1] \o <<":">>
                        \o e.PACT_BROKER_PASSWORD[1]))
    ELSE None

Succeeded(call, name) ==
    call.name = name /\ call.pc = "done" /\ ~IsErrorEnvelope(call)

\* the JSON value a success envelope prints
Printed(call) == TextOf(call)[1].json

\* the members of the bodies the claims speak of, as the registry sent them
\* (no such member: the empty list)
SentPacticipants(body) ==
    IF "_embedded" \in DOMAIN body /\ "pacticipants" \in DOMAIN body._embedded
    THEN body._embedded.pacticipants ELSE <<>>
SentPacts(body) == IF "pacts" \in DOMAIN body THEN body.pacts ELSE <<>>
SentStates(body) ==
    IF "providerStates" \in DOMAIN body THEN body.providerStates ELSE <<>>

Names(seq) == [n \in DOMAIN seq |-> seq[n].name]

\* C12: a successful list_providers prints, in the order of the
\* pacticipants answer, the names of exactly the pacticipants whose name is
\* the provider of some pact of the latest-pacts answer; for pacticipants
\* [A,B,C] and pacts [(A,B)] it prints exactly B.
C12_ProvidersOnly ==
    \A i \in Calls :
       Succeeded(inv[i], "list_providers") =>
          LET all == SentPacticipants(inv[i].resps[1].data)
              pacts == SentPacts(inv[i].resps[2].data)
              providers == {pacts[n]._embedded.provider.name : n \in DOMAIN pacts}
              expected == SelectSeq(Names(all), LAMBDA x : x \in providers)
          IN /\ Len(TextOf(inv[i])) = 1
             /\ \A n \in DOMAIN Printed(inv[i]) :
                   DOMAIN Printed(inv[i])[n] = {"name"}
             /\ Names(Printed(inv[i])) = expected
             /\ (Names(all) = <<<<"A">>, <<"B">>, <<"C">>>>
                 /\ Len(pacts) = 1 /\ providers = {<<"B">>}
                 => Names(Printed(inv[i])) = <<<<"B">>>>)

\* pacticipants [A,B] with pacts (A,B), (a,Z), (B,a): B alone is printed;
\* A is only a consumer, Z and a are providers that are not pacticipants
C12_Witness ==
    \E i \in Calls :
       /\ Succeeded(inv[i], "list_providers")
       /\ Names(SentPacticipants(inv[i].resps[1].data)) = <<<<"A">>, <<"B">>>>
       /\ Len(SentPacts(inv[i].resps[2].data)) = 3
       /\ Names(Printed(inv[i])) = <<<<"B">>>>

\* C13: a successful get_provider_pacts (get_consumer_pacts) prints one
\* entry for each pact of the latest-pacts answer whose provider (consumer)
\* name equals the requested name when both are put in lower case, in the
\* order of the answer, and nothing else.
C13_CaseInsensitiveFilter ==
    \A i \in Calls :
       \A side \in {"provider", "consumer"} :
          Succeeded(inv[i], "get_" \o side \o "_pacts") =>
             LET pacts == SentPacts(inv[i].resps[1].data)
                 asked == inv[i].args[1][side \o "_name"].v
                 expected ==
                   SelectSeq(pacts,
                     LAMBDA p : toLowerCase(p._embedded[side].name)
                                = toLowerCase(asked))
                 printed == Printed(inv[i])
             IN /\ Len(printed) = Len(expected)
                /\ \A n \in DOMAIN printed :
                      /\ printed[n].consumer = expected[n]._embedded.consumer.name
                      /\ printed[n].provider = expected[n]._embedded.provider.name

\* get_consumer_pacts for "A" printed (A,B) and (a,Z), in that order, out of
\* three pacts
C13_Witness ==
    \E i \in Calls :
       /\ Succeeded(inv[i], "get_consumer_pacts")
       /\ inv[i].args[1].consumer_name.v = <<"A">>
       /\ Len(SentPacts(inv[i].resps[1].data)) = 3
       /\ Len(Printed(inv[i])) = 2
       /\ Printed(inv[i])[1].provider = <<"B">>
       /\ Printed(inv[i])[2].consumer = <<"a">>

\* the verdict line of can_i_deploy for a summary
VerdictLine(summary) ==
    IF summary.deployable = TRUE
    THEN <<Lit("[check mark]"), Lit(" "), Lit("CAN DEPLOY")>>
    ELSE <<Lit("[cross mark]"), Lit(" "), Lit("CANNOT DEPLOY")>>

\* C14 as stated: the text of a successful can_i_deploy is the verdict
\* line, the reason on the line after it, a blank line, and the answer as
\* JSON indented by two.
C14_VerdictThenReason ==
    \A i \in Calls :
       Succeeded(inv[i], "can_i_deploy") =>
          LET result == inv[i].resps[1].data
          IN TextOf(inv[i]) =
               VerdictLine(result.summary)
               \o <<Lit("\n"), Str(result.summary.reason), Lit("\n\n"),
                    [json |-> result, indent |-> 2]>>

\* C14, amended: the text of a successful can_i_deploy is the verdict line
\* (CAN DEPLOY exactly when summary.deployable is true), a blank line, the
\* reason, a blank line, and the answer as JSON indented by two.
C14_VerdictBlankReason ==
    \A i \in Calls :
       Succeeded(inv[i], "can_i_deploy") =>
          LET result == inv[i].resps[1].data
          IN TextOf(inv[i]) =
               VerdictLine(result.summary)
               \o <<Lit("\n\n"), Str(result.summary.reason), Lit("\n\n"),
                    [json |-> result, indent |-> 2]>>

\* deployable:false with reason "r" came back as CANNOT DEPLOY, r, the JSON
C14_Witness ==
    \E i \in Calls :
       /\ Succeeded(inv[i], "can_i_deploy")
       /\ inv[i].resps[1].data.summary.deployable = FALSE
       /\ inv[i].resps[1].data.summary.reason = <<"r">>
       /\ TextOf(inv[i])[3] = Lit("CANNOT DEPLOY")
       /\ TextOf(inv[i])[5] = Str(<<"r">>)
       /\ TextOf(inv[i])[7].json = inv[i].resps[1].data

\* C15: a successful get_provider_states for provider X prints the text
\* `No pacts found for provider "X".` when the answer has no states, and the
\* states as JSON otherwise; an answer without states never gives an error
\* envelope.
C15_NoPactsFound ==
    \A i \in Calls :
       inv[i].name = "get_provider_states" /\ inv[i].pc = "done"
       /\ inv[i].resps # <<>> /\ ~Failed(inv[i].resps[1]) =>
          LET states == SentStates(inv[i].resps[1].data)
          IN /\ ~IsErrorEnvelope(inv[i])
             /\ TextOf(inv[i]) =
                  IF states = <<>>
                  THEN <<Lit("No pacts found for provider \""),
                         Str(inv[i].args[1].provider_name.v), Lit("\".")>>
                  ELSE <<[json |-> states, indent |-> 2]>>

\* the answer for provider "A" carried an empty list of states
C15_Witness ==
    \E i \in Calls :
       /\ Succeeded(inv[i], "get_provider_states")
       /\ inv[i].args[1].provider_name.v = <<"A">>
       /\ "providerStates" \in DOMAIN inv[i].resps[1].data
       /\ inv[i].resps[1].data.providerStates = <<>>
       /\ TextOf(inv[i]) = <<Lit("No pacts found for provider \""),
                             Str(<<"A">>), Lit("\".")>>

\* the entries of a list of tools with the name
EntriesFor(list, name) == {n \in DOMAIN list : list[n].name = name}

\* C16: the list of tools has exactly one entry for each tool the
\* dispatcher handles and no entry for another name; the entry carries the
\* tool's description, and the `required` list of its schema names each
\* field of the tool's argument schema once and nothing else.
C16_OneEntryPerTool ==
    listed # None =>
       LET list == listed[1]
       IN /\ \A name \in ToolNames : Cardinality(EntriesFor(list, name)) = 1
          /\ \A n \in DOMAIN list :
               LET required == list[n].inputSchema.required
               IN /\ list[n].name \in ToolNames
                  /\ list[n].description = <<"description of ", list[n].name>>
                  /\ Range(required) = Range(SchemaOf(list[n].name))
                  /\ Len(required) = Cardinality(Range(required))
                  /\ DOMAIN list[n].inputSchema.properties = Range(required)

\* the list was given; can_i_deploy requires its three fields, and
\* list_providers none
C16_Witness ==
    /\ listed # None
    /\ Len(listed[1]) = 16
    /\ \E n \in DOMAIN listed[1] :
          /\ listed[1][n].name = "can_i_deploy"
          /\ Range(listed[1][n].inputSchema.required) =
               {"pacticipant", "version", "environment"}
    /\ \E n \in DOMAIN listed[1] :
          /\ listed[1][n].name = "list_providers"
          /\ listed[1][n].inputSchema.required = <<>>

\* C17: a ListTools request can be answered in every state, its answer is
\* the same list whatever the environment, the registry and the
\* invocations made or open are, and answering it sends no request and
\* touches no invocation.
C17_ListToolsStable ==
    [][/\ ENABLED ListToolsRequest
       /\ listed' # None => Names(listed'[1]) = ToolOrder
       /\ listed # None /\ listed' # None => listed' = listed
       /\ listed' # listed => inv' = inv]_vars

\* the list was given while no base URL was configured and an invocation
\* that had failed was still open
C17_Witness ==
    /\ listed # None
    /\ Names(listed[1]) = ToolOrder
    /\ ~BaseConfigured(env)
    /\ inv[1].pc = "done"
    /\ IsErrorEnvelope(inv[1])

\* the names list_providers gives for a registry
ProvidersIn(reg) ==
    SelectSeq(Names(reg.pacticipants),
      LAMBDA x : \E n \in DOMAIN reg.pacts :
                    reg.pacts[n]._embedded.provider.name = x)

\* the slot's invocation returns in this step, all its requests answered by
\* the registry as it is now
ReturnsFrom(i, name) ==
    /\ inv[i].pc = "fetch"
    /\ Succeeded(inv'[i], name)
    /\ \A n \in DOMAIN inv'[i].resps :
          /\ inv'[i].resps[n].kind = "json"
          /\ inv'[i].resps[n].data \in
               ContractBodies(Endpoint(name, n), registry)

\* C18: every request of every invocation is a GET, no step of the handler
\* changes the registry, and what a listing returns is fixed by the
\* contents of the registry it was answered from: list_pacticipants gives
\* the names of its pacticipants, list_providers those of its providers.
C18_ReadOnly ==
    [][\A i \in Slots :
         /\ \A n \in DOMAIN inv'[i].requests :
               inv'[i].requests[n].method = "GET"
         /\ inv'[i] # inv[i] => registry' = registry
         /\ ReturnsFrom(i, "list_pacticipants") =>
               Names(Printed(inv'[i])) = Names(registry.pacticipants)
         /\ ReturnsFrom(i, "list_providers") =>
               Names(Printed(inv'[i])) = ProvidersIn(registry)]_vars

\* list_providers returned after two GETs, and the registry is as it was
C18_Witness ==
    \E i \in Calls :
       /\ Succeeded(inv[i], "list_providers")
       /\ Len(inv[i].requests) = 2
       /\ \A n \in {1, 2} : inv[i].requests[n].method = "GET"
       /\ inv[i].resps[1].data =
            [_embedded |-> [pacticipants |-> registry.pacticipants]]
       /\ inv[i].resps[2].data = [pacts |-> registry.pacts]
       /\ registry.pacts # <<>>
       /\ Names(Printed(inv[i])) = ProvidersIn(registry)

\* the handler run on its own: called, then resumed with the answers in turn
RECURSIVE Feed(_, _)
Feed(call, answers) ==
    IF answers = <<>> \/ call.pc # "fetch" THEN call
    ELSE LET a == answers[1]
             resumed ==
               CASE a.kind = "neterr" -> Rejected(call)
                 [] a.kind = "status" -> NotOk(call, a.status, a.body)
                 [] a.kind = "badjson" -> BadJson(call)
                 [] OTHER -> Resume(call, a.data)
         IN Feed(resumed, Tail(answers))

Alone(name, args, e, answers) == Feed(Call(name, args, e), answers)

\* C19: of two invocations interleaved at their fetches, each is at every
\* moment where it would be had it run alone under the same environment
\* and received the same answers (same requests sent, same envelope
\* returned), and a step of one leaves the other as it was.
C19_Independent ==
    [][\A i \in Slots :
         /\ inv'[i].pc # "idle" =>
               inv'[i] = Alone(inv'[i].name, inv'[i].args, env, inv'[i].resps)
         /\ inv'[i] # inv[i] => \A j \in Slots \ {i} : inv'[j] = inv[j]]_vars

\* one list_providers failed at its second request, the other, answered the
\* same pacticipants, returned its provider
C19_Witness ==
    /\ inv[1].name = "list_providers" /\ inv[2].name = "list_providers"
    /\ inv[1].pc = "done" /\ inv[2].pc = "done"
    /\ Len(inv[1].resps) = 2 /\ Failed(inv[1].resps[2])
    /\ IsErrorEnvelope(inv[1])
    /\ ~IsErrorEnvelope(inv[2])
    /\ inv[2].resps[1] = inv[1].resps[1]
    /\ Names(Printed(inv[2])) = <<<<"B">>>>

\* the tools whose text is the answer itself, printed as JSON
PassThrough ==
    {"get_pact", "get_pact_version", "get_previous_distinct_pact",
     "get_latest_verification_results_for_pact_version"}

\* what the invocation printed is made of the answers it received itself
FromOwnAnswers(call) ==
    CASE call.name = "list_pacticipants" ->
           Names(Printed(call)) = Names(SentPacticipants(call.resps[1].data))
      [] call.name = "list_providers" ->
           \A n \in DOMAIN Printed(call) :
              /\ \E m \in DOMAIN SentPacticipants(call.resps[1].data) :
                    SentPacticipants(call.resps[1].data)[m].name
                    = Printed(call)[n].name
              /\ \E m \in DOMAIN SentPacts(call.resps[2].data) :
                    SentPacts(call.resps[2].data)[m]._embedded.provider.name
                    = Printed(call)[n].name
      [] call.name \in PassThrough -> Printed(call) = call.resps[1].data
      [] OTHER -> TRUE

\* C20: an invocation that returns a success envelope has sent its own
\* request(s), one per endpoint, has had each answered, and prints what
\* these answers carried; each answer it is resumed with is a body of the
\* registry as it is at that moment, so that list_pacticipants answered
\* after a change of the registry prints the new pacticipants.
C20_NothingCached ==
    [][\A i \in Slots :
         /\ inv'[i].pc = "done" /\ ~IsErrorEnvelope(inv'[i]) =>
              /\ Len(inv'[i].requests) = EndpointsOf(inv'[i].name)
              /\ Len(inv'[i].resps) = Len(inv'[i].requests)
              /\ FromOwnAnswers(inv'[i])
         /\ Len(inv'[i].resps) > Len(inv[i].resps) =>
              LET a == inv'[i].resps[Len(inv'[i].resps)]
              IN a.kind \in {"json", "empty"} =>
                   a.data \in OkBodies(Endpoint(inv[i].name, inv[i].stage),
                                       registry)
         /\ /\ inv[i].pc = "fetch"
            /\ Succeeded(inv'[i], "list_pacticipants")
            /\ inv'[i].resps[1].kind = "json"
            => Names(Printed(inv'[i])) = Names(registry.pacticipants)]_vars

\* list_pacticipants printed the two pacticipants of the registry that has
\* two, from the one answer to its one request
C20_Witness ==
    \E i \in Calls :
       /\ Succeeded(inv[i], "list_pacticipants")
       /\ Len(inv[i].requests) = 1
       /\ Len(inv[i].resps) = 1
       /\ Len(registry.pacticipants) = 2
       /\ Names(Printed(inv[i])) = Names(registry.pacticipants)

\* the base URL a request went to, and the number of times a step occurs
BaseOf(request) == request.url[1]
Times(steps, step) == Cardinality({n \in DOMAIN steps : steps[n] = step})

\* C21: an invocation of a registered tool with valid arguments reads the
\* environment as it is when the invocation is made: its first request goes
\* to the base URL and carries the credential of that environment (or the
\* invocation fails for the missing base URL); the configuration is read
\* once, after validation and before the first request, and not at all
\* when the lookup or the validation fails; every request of the invocation
\* goes to the base URL and carries the credential of its first request,
\* and the configuration of the invocation does not change while it waits,
\* whatever happens to the environment.
C21_ConfigPerCall ==
    [][\A i \in Slots :
         /\ (/\ inv[i].pc = "idle" /\ inv'[i].pc # "idle"
             /\ inv'[i].name \in ToolNames /\ ~ArgsInvalid(inv'[i])) =>
               IF BaseConfigured(env)
               THEN /\ inv'[i].pc = "fetch"
                    /\ Len(inv'[i].requests) = 1
                    /\ BaseOf(inv'[i].requests[1]) =
                          StripTrailingSlash(env.PACT_BROKER_BASE_URL[1])[1]
                    /\ inv'[i].requests[1].headers.Authorization =
                          ExpectedAuthorization(env)
               ELSE /\ inv'[i].pc = "done"
                    /\ inv'[i].requests = <<>>
                    /\ TextOf(inv'[i]) = BaseUrlRequired
         /\ inv'[i].pc # "idle" =>
               /\ Times(inv'[i].steps, "config") =
                     IF inv'[i].name \in ToolNames /\ ~ArgsInvalid(inv'[i])
                     THEN 1 ELSE 0
               /\ inv'[i].requests # <<>> =>
                     IsPrefix(<<"lookup", "validate", "config", "request">>,
                              inv'[i].steps)
               /\ \A n \in DOMAIN inv'[i].requests :
                     /\ BaseOf(inv'[i].requests[n]) =
                           BaseOf(inv'[i].requests[1])
                     /\ inv'[i].requests[n].headers =
                           inv'[i].requests[1].headers
         /\ inv[i].pc = "fetch" /\ inv'[i].pc # "idle" =>
               /\ inv'[i].config = inv[i].config
               /\ IsPrefix(inv[i].requests, inv'[i].requests)]_vars

\* both requests of list_providers went to the base URL and with the token
\* read when the invocation was made, although the environment now names
\* another base URL and another token
C21_Witness ==
    \E i \in Calls :
       /\ inv[i].name = "list_providers"
       /\ Len(inv[i].requests) = 2
       /\ env.PACT_BROKER_BASE_URL = Some(<<"http://c">>)
       /\ env.PACT_BROKER_TOKEN = Some(<<"t2">>)
       /\ \A n \in {1, 2} :
             /\ BaseOf(inv[i].requests[n]) = "http://b"
             /\ inv[i].requests[n].headers.Authorization =
                   Some(<<"Bearer ", "t">>)

\* the requests of a call that have not been answered yet
InFlight(call) == Len(call.requests) - Len(call.resps)

\* C26: an invocation of list_providers never has more than one request in
\* flight; its first request is the GET of /pacticipants and its second, if
\* any, the GET of /pacts/latest; the second exists only when the first was
\* answered with a 2xx JSON body, and a failed first answer (rejected fetch,
\* non-2xx status, body that is not JSON) ends the invocation with one
\* request sent.
C26_Sequential ==
    \A i \in Calls :
       inv[i].name = "list_providers" =>
         /\ InFlight(inv[i]) = IF inv[i].pc = "fetch" THEN 1 ELSE 0
         /\ Len(inv[i].requests) <= 2
         /\ Len(inv[i].requests) >= 1 =>
               inv[i].requests[1].url =
                  inv[i].config[1].brokerUrl \o <<"/pacticipants">>
         /\ Len(inv[i].requests) = 2 =>
               /\ inv[i].requests[2].url =
                     inv[i].config[1].brokerUrl \o <<"/pacts/latest">>
               /\ Len(inv[i].resps) >= 1
               /\ ~Failed(inv[i].resps[1])
               /\ inv[i].resps[1].status = 200
         /\ (Len(inv[i].resps) >= 1 /\ Failed(inv[i].resps[1])) =>
               /\ Len(inv[i].requests) = 1
               /\ inv[i].pc = "done"
               /\ IsErrorEnvelope(inv[i])

\* the pacticipants were answered and the GET of /pacts/latest is the only
\* request of the invocation in flight
C26_Witness ==
    \E i \in Calls :
       /\ inv[i].name = "list_providers"
       /\ inv[i].pc = "fetch"
       /\ Len(inv[i].requests) = 2
       /\ Len(inv[i].resps) = 1
       /\ inv[i].resps[1].kind = "json"
       /\ inv[i].resps[1].status = 200

\* the list a body carries under its top-level _embedded wrapper, and the
\* list it carries as a top-level member (no such member: the empty list)
Wrapped(body, member) ==
    IF "_embedded" \in DOMAIN body /\ member \in DOMAIN body._embedded
    THEN body._embedded[member] ELSE <<>>
TopLevel(body, member) ==
    IF member \in DOMAIN body THEN body[member] ELSE <<>>

\* the tools that print the answer of a singular endpoint as it is
PrintedAsIs ==
    {"get_pact", "get_pact_version", "get_previous_distinct_pact",
     "get_latest_verification_results_for_pact_version"}

\* what the successful invocations print comes from where the claim C23
\* says, PactsOf(body) being the pacts of a latest-pacts answer: the
\* pacticipants, environments and branches printed are those under
\* _embedded, the pacts filtered by get_provider_pacts, get_consumer_pacts
\* and list_providers are PactsOf(body), and the singular endpoints give
\* the members of the flat answer
CollectionsFrom(PactsOf(_)) ==
    \A i \in Calls :
       /\ \A t \in {<<"list_pacticipants", "pacticipants">>,
                    <<"list_environments", "environments">>,
                    <<"get_pacticipant_branches", "branches">>} :
             Succeeded(inv[i], t[1]) =>
                Names(Printed(inv[i])) =
                   Names(Wrapped(inv[i].resps[1].data, t[2]))
       /\ \A side \in {"provider", "consumer"} :
             Succeeded(inv[i], "get_" \o side \o "_pacts") =>
                LET pacts == PactsOf(inv[i].resps[1].data)
                    asked == inv[i].args[1][side \o "_name"].v
                    expected ==
                      SelectSeq(pacts,
                        LAMBDA p : toLowerCase(p._embedded[side].name)
                                   = toLowerCase(asked))
                    printed == Printed(inv[i])
                IN /\ Len(printed) = Len(expected)
                   /\ \A n \in DOMAIN printed :
                         /\ printed[n].consumer =
                               expected[n]._embedded.consumer.name
                         /\ printed[n].provider =
                               expected[n]._embedded.provider.name
       /\ Succeeded(inv[i], "list_providers") =>
             LET all == Wrapped(inv[i].resps[1].data, "pacticipants")
                 pacts == PactsOf(inv[i].resps[2].data)
                 providers ==
                   {pacts[n]._embedded.provider.name : n \in DOMAIN pacts}
             IN Names(Printed(inv[i])) =
                   SelectSeq(Names(all), LAMBDA x : x \in providers)
       /\ \A name \in PrintedAsIs :
             Succeeded(inv[i], name) => Printed(inv[i]) = inv[i].resps[1].data
       /\ Succeeded(inv[i], "get_pacticipant") =>
             \A k \in DOMAIN Printed(inv[i]) :
                /\ k \in DOMAIN inv[i].resps[1].data
                /\ Printed(inv[i])[k] = inv[i].resps[1].data[k]

\* C23 as stated: the pacts of a latest-pacts answer are those under its
\* top-level _embedded wrapper, like the other lists.
C23_EmbeddedEverywhere ==
    CollectionsFrom(LAMBDA body : Wrapped(body, "pacts"))

\* C23: the pacticipants, environments and branches returned are those under
\* the answer's top-level _embedded wrapper; the latest pacts are the
\* answer's top-level `pacts` member, and pacts under _embedded are not
\* read; a singular endpoint's flat answer is returned as it is.
C23_EmbeddedExceptPacts ==
    CollectionsFrom(LAMBDA body : TopLevel(body, "pacts"))

\* the answer wrapped three pacts in _embedded, one of them with the
\* provider asked for, and get_provider_pacts printed none
C23_Witness ==
    \E i \in Calls :
       /\ Succeeded(inv[i], "get_provider_pacts")
       /\ inv[i].args[1].provider_name.v = <<"A">>
       /\ Len(Wrapped(inv[i].resps[1].data, "pacts")) = 3
       /\ \E n \in {1, 2, 3} :
             Wrapped(inv[i].resps[1].data, "pacts")[n]._embedded.provider.name
               = <<"a">>
       /\ Printed(inv[i]) = <<>>

\* the environment gives the user name, the password and the bearer token
BothConfigured(e) == BasicConfigured(e) /\ BearerConfigured(e)

\* the scheme of an Authorization header: its first token
Scheme(authorization) == authorization[1][1]

Probed(fn) == probe # None /\ probe[1].fn = fn

\* the names a pact gives its states: the providerState of an interaction
\* and the name of each entry of its providerStates
NamesIn(pact) ==
    LET interactions == TopLevel(pact, "interactions")
    IN UNION {
         (IF "providerState" \in DOMAIN interactions[n]
          THEN {interactions[n].providerState} ELSE {})
         \cup {e.name : e \in {x \in Range(TopLevel(interactions[n],
                                                    "providerStates")) :
                                 "name" \in DOMAIN x}} :
         n \in DOMAIN interactions}

\* s comes before t in lexicographic order of the code units: they differ
\* first at a position where s has ended or has the smaller character
Lexically(s, t) ==
    \E k \in 1..(Len(t)) :
       /\ \A j \in 1..(k - 1) : j <= Len(s) /\ s[j] = t[j]
       /\ \/ Len(s) = k - 1
          \/ Len(s) >= k /\ CodeUnit(s[k]) < CodeUnit(t[k])

Ascending(seq) ==
    \A n \in DOMAIN seq : n > 1 => Lexically(seq[n - 1], seq[n])

\* the example of the claim: the legacy state "a" in one interaction, the
\* states "b" and "a" in the list of another
C22_Example(pact) ==
    /\ "interactions" \in DOMAIN pact
    /\ Len(pact.interactions) = 2
    /\ pact.interactions[1] =
          [description |-> <<"d">>, providerState |-> <<"a">>]
    /\ pact.interactions[2] =
          [description |-> <<"d">>,
           providerStates |-> <<[name |-> <<"b">>], [name |-> <<"a">>]>>]

\* C22 as stated: the states mined from a pact are the names of its
\* interactions' providerState fields and providerStates entries, all of
\* them and nothing else, in ascending order without duplicates.
C22_UnionOfNames ==
    Probed("extractProviderStates") =>
       /\ Range(probe[1].output) = NamesIn(probe[1].input)
       /\ Ascending(probe[1].output)

\* C22: the states mined from a pact are the non-empty names of its
\* interactions' providerState fields and providerStates entries, all of
\* them and nothing else, in strictly ascending lexicographic order (so
\* without duplicates); the example gives ["a","b"], and a pact without
\* interactions or without states gives the empty sequence.
C22_UnionOfNonEmptyNames ==
    Probed("extractProviderStates") =>
       /\ Range(probe[1].output) = NamesIn(probe[1].input) \ {<<>>}
       /\ Ascending(probe[1].output)
       /\ C22_Example(probe[1].input) =>
             probe[1].output = <<<<"a">>, <<"b">>>>
       /\ NamesIn(probe[1].input) = {} => probe[1].output = <<>>

\* the example of the claim was mined and gave a before b
C22_Witness ==
    /\ Probed("extractProviderStates")
    /\ C22_Example(probe[1].input)
    /\ probe[1].output = <<<<"a">>, <<"b">>>>

\* the path of a URL: what follows the base URL
PathOf(url) == Tail(url)

\* the number of "/" in a token of a path
Separators(token) ==
    CASE token = "/pacts/provider/" -> 3
      [] token \in {"/pacticipants/", "/consumer/", "/branches/"} -> 2
      [] token \in {"/", "/provider-states", "/latest", "/branches",
                    "/latest-version"} -> 1
      [] OTHER -> 0

RECURSIVE SegmentCount(_)
SegmentCount(path) ==
    IF path = <<>> THEN 0 ELSE Separators(Head(path)) + SegmentCount(Tail(path))

\* the number of segments of the endpoint templates:
\* /pacticipants/{name}, /pacts/provider/{p}/provider-states,
\* /pacts/provider/{p}/consumer/{c}/latest, /pacticipants/{name}/branches,
\* /pacticipants/{name}/branches/{branch}/latest-version
TemplateSegments(endpoint) ==
    CASE endpoint = "pacticipant" -> 2
      [] endpoint = "provider_states" -> 4
      [] endpoint = "pact" -> 6
      [] endpoint = "branches" -> 3
      [] endpoint = "branch_latest" -> 5

\* percent-decoding
Decoded(hi, lo) ==
    CASE <<hi, lo>> = <<"2", "F">> -> "/"
      [] <<hi, lo>> = <<"3", "F">> -> "?"
      [] <<hi, lo>> = <<"2", "3">> -> "#"
      [] <<hi, lo>> = <<"2", "5">> -> "%"
      [] <<hi, lo>> = <<"2", "0">> -> " "
      [] OTHER -> "invalid"
RECURSIVE Decode(_)
Decode(s) ==
    IF s = <<>> THEN <<>>
    ELSE IF Head(s) = "%"
    THEN IF Len(s) >= 3
         THEN <<Decoded(s[2], s[3])>> \o Decode(SubSeq(s, 4, Len(s)))
         ELSE <<"invalid">>
    ELSE <<Head(s)>> \o Decode(Tail(s))

\* the segment of the path between the literal tokens before and after
Between(path, before, after) ==
    LET from == CHOOSE n \in DOMAIN path : path[n] = before
        to == CHOOSE n \in DOMAIN path : n > from /\ path[n] = after
    IN SubSeq(path, from + 1, to - 1)

\* C24: the URL a client function builds for names with "/", "?", "#", "%"
\* or spaces in them has as many path segments as the template of its
\* endpoint and neither "?" nor "#"; each name can be read back from its
\* segment by percent-decoding; in the URL of get_pact the segment after
\* /pacts/provider/ is the provider name and the one after /consumer/ the
\* consumer name.
C24_NamesEncoded ==
    Probed("url") =>
       LET endpoint == probe[1].input.endpoint
           a == probe[1].input.args
           path == PathOf(probe[1].output)
       IN /\ probe[1].output[1] = "http://b"
          /\ SegmentCount(path) = TemplateSegments(endpoint)
          /\ \A n \in DOMAIN path : path[n] \notin {"?", "#", " "}
          /\ endpoint = "pacticipant" =>
                /\ path[1] = "/pacticipants/"
                /\ Decode(Tail(path)) = a.name
          /\ endpoint = "pact" =>
                /\ path[1] = "/pacts/provider/"
                /\ path[Len(path)] = "/latest"
                /\ Decode(Between(path, "/pacts/provider/", "/consumer/"))
                     = a.provider_name
                /\ Decode(Between(path, "/consumer/", "/latest"))
                     = a.consumer_name

\* the URL of get_pact for the provider "A/" and the consumer "# "
C24_Witness ==
    /\ Probed("url")
    /\ probe[1].input.endpoint = "pact"
    /\ probe[1].input.args.provider_name = <<"A", "/">>
    /\ probe[1].input.args.consumer_name = <<"#", " ">>
    /\ probe[1].output =
          <<"http://b", "/pacts/provider/", "A", "%", "2", "F", "/consumer/",
            "%", "2", "3", "%", "2", "0", "/latest">>

\* the variable is set and not empty
NonEmpty(o) == o \notin {None, Some(<<>>)}

\* C29: the headers built under an environment carry the Basic credential
\* only when the user name and the password are both set and not empty
\* (and there is no bearer token); with one of the two unset or empty the
\* Authorization header is absent when there is no bearer token, and is the
\* Bearer credential when there is one.
C29_BasicNeedsBoth ==
    Probed("buildHeaders") =>
       LET e == probe[1].input
           sent == probe[1].output.Authorization
           both == NonEmpty(e.PACT_BROKER_USERNAME)
                   /\ NonEmpty(e.PACT_BROKER_PASSWORD)
           bearer == NonEmpty(e.PACT_BROKER_TOKEN)
       IN /\ (sent # None /\ Scheme(sent) = "Basic ") => both /\ ~bearer
          /\ (~both /\ ~bearer) => sent = None
          /\ (~both /\ bearer) =>
                sent = Some(<<"Bearer ">> \o e.PACT_BROKER_TOKEN[1])
          /\ (both /\ ~bearer) =>
                sent = Some(<<"Basic ", "base64(">> \o e.PACT_BROKER_USERNAME[1]
                            \o <<":">> \o e.PACT_BROKER_PASSWORD[1] \o <<")">>)

\* the user name is set, the password is set but empty and there is no
\* token: no Authorization header
C29_Witness ==
    /\ Probed("buildHeaders")
    /\ probe[1].input.PACT_BROKER_USERNAME = Some(<<"u">>)
    /\ probe[1].input.PACT_BROKER_PASSWORD = Some(<<>>)
    /\ probe[1].input.PACT_BROKER_TOKEN = None
    /\ probe[1].output.Authorization = None

\* the number of entries of a list with the name
Occurrences(seq, name) == Cardinality({n \in DOMAIN seq : seq[n].name = name})

\* the names are equal once "A" and "B" are read as "a" and "b"
Folded(c) == CASE c = "A" -> "a" [] c = "B" -> "b" [] OTHER -> c
SameButCase(s, t) ==
    Len(s) = Len(t) /\ \A n \in DOMAIN s : Folded(s[n]) = Folded(t[n])

\* seq is what is left of all when some of its entries are struck out
RECURSIVE Subsequence(_, _)
Subsequence(seq, all) ==
    IF seq = <<>> THEN TRUE
    ELSE IF all = <<>> THEN FALSE
    ELSE IF Head(seq) = Head(all) THEN Subsequence(Tail(seq), Tail(all))
    ELSE Subsequence(seq, Tail(all))

\* C30: list_providers keeps a pacticipant exactly when some latest pact
\* names a provider equal to its name character for character; a
\* pacticipant whose name matches providers in another case only is left
\* out, although get_provider_pacts for that name returns every pact whose
\* provider is the name in any case; the result of list_providers is a
\* subsequence of the pacticipants and holds each name exactly as often as
\* the pacticipants do when it is kept.
C30_ExactMatch ==
    Probed("listProviders") =>
       LET all == probe[1].input.allPacticipants
           pacts == probe[1].input.latestPacts
           asked == probe[1].input.providerName
           providers == probe[1].output.providers
           providerPacts == probe[1].output.providerPacts
           Provided(name) ==
              \E k \in DOMAIN pacts : pacts[k].provider.name = name
       IN /\ \A n \in DOMAIN all :
                (\E m \in DOMAIN providers : providers[m] = all[n])
                   <=> Provided(all[n].name)
          /\ Subsequence(providers, all)
          /\ \A name \in CaseNames :
                /\ Occurrences(providers, name) <= Occurrences(all, name)
                /\ Provided(name) =>
                      Occurrences(providers, name) = Occurrences(all, name)
          /\ providerPacts =
                SelectSeq(pacts, LAMBDA p : SameButCase(p.provider.name, asked))
          /\ (\A k \in DOMAIN pacts : pacts[k].provider.name = <<"b">>) =>
                /\ \A m \in DOMAIN providers : providers[m].name # <<"B">>
                /\ asked = <<"B">> => providerPacts = pacts

\* the pacticipants are B, A, B and the two pacts name the provider b:
\* list_providers returns nothing, get_provider_pacts for B both pacts
C30_Witness ==
    /\ Probed("listProviders")
    /\ Names(probe[1].input.allPacticipants) = <<<<"B">>, <<"A">>, <<"B">>>>
    /\ Len(probe[1].input.latestPacts) = 2
    /\ \A k \in {1, 2} : probe[1].input.latestPacts[k].provider.name = <<"b">>
    /\ probe[1].input.providerName = <<"B">>
    /\ probe[1].output.providers = <<>>
    /\ Len(probe[1].output.providerPacts) = 2

\* the names of the list of tools last given
ListedNames == {listed[1][n].name : n \in DOMAIN listed[1]}

UnknownToolText(name) == <<Lit("Unknown tool: \""), Tool(name), Lit("\"")>>

\* C28: once the list of tools was given, an invocation by a listed name
\* gets past the lookup of the dispatcher (it validates its arguments) and
\* never returns `Unknown tool`, and an invocation by any other name stops
\* at the lookup with `Unknown tool`: the names listed are the names
\* handled.
C28_ListedIsHandled ==
    listed # None =>
       \A i \in Calls :
          IF inv[i].name \in ListedNames
          THEN /\ IsPrefix(<<"lookup", "validate">>, inv[i].steps)
               /\ inv[i].pc = "done" =>
                     TextOf(inv[i]) # UnknownToolText(inv[i].name)
          ELSE /\ inv[i].pc = "done"
               /\ inv[i].steps = <<"lookup">>
               /\ TextOf(inv[i]) = UnknownToolText(inv[i].name)

\* the list was given, and the tool listed last was invoked and has sent
\* its request
C28_Witness ==
    /\ listed # None
    /\ \E i \in Calls :
          /\ inv[i].name = listed[1][Len(listed[1])].name
          /\ inv[i].name = "get_currently_supported_versions"
          /\ inv[i].pc = "fetch"
          /\ Len(inv[i].requests) = 1

\* C27: with every request answered in the end, an invocation that waits
\* for a request returns an envelope in the end.  Nothing but the answer to
\* its request moves a waiting invocation (there is no timeout: each step
\* out of the wait adds one answer to those received), a step of one
\* invocation leaves the other as it is, and while one invocation waits
\* the other can still be invoked, answered and completed.
C27_Terminates ==
    /\ \A i \in Slots :
          (inv[i].pc = "fetch") ~>
             (inv[i].pc = "done" /\ inv[i].envelope # None)
    /\ [][\A i \in Slots :
            /\ (inv[i].pc = "fetch" /\ inv'[i] # inv[i]) =>
                  Len(inv'[i].resps) = Len(inv[i].resps) + 1
            /\ inv'[i] # inv[i] =>
                  \A j \in Slots \ {i} : inv'[j] = inv[j]
            /\ inv[i].pc = "fetch" =>
                  \A j \in Slots \ {i} :
                     /\ inv[j].pc = "idle" => ENABLED InvokePair(j)
                     /\ inv[j].pc = "fetch" => ENABLED Settles(j)
                     /\ inv[j].pc = "done" => ENABLED Complete(j)]_vars

\* the first invocation still waits for the answer to its first request
\* while the second, list_providers, has had both its answers and returned
C27_Witness ==
    /\ inv[1].pc = "fetch"
    /\ inv[1].resps = <<>>
    /\ inv[2].pc = "done"
    /\ inv[2].name = "list_providers"
    /\ Len(inv[2].resps) = 2
    /\ inv[2].envelope # None

====
